---- MODULE Spec2Model ----
(***************************************************************************)
(* A model of the garm CloudStack provider: the provider entry points      *)
(* (provider/provider.go), the lifecycle client (internal/client/          *)
(* cloudstack.go), the error predicate and instance conversion             *)
(* (internal/util/util.go) and the runner-spec builder (internal/spec).    *)
(* The CloudStack platform is the environment: a list of VM records that   *)
(* the remote calls read and change, and whose calls may fail.             *)
(*                                                                         *)
(* Strings the code inspects are modelled by what the code does to them:   *)
(* an error text is a sequence of words, lower-cased word by word and      *)
(* searched for a contiguous run of words; a VM state is one word.         *)
(***************************************************************************)
EXTENDS Integers, Sequences, FiniteSets, TLC

\* ---------------------------------------------------------------- bounds
\* Number of VM records the platform ever holds in one behaviour.
MaxVMs == 2

\* ------------------------------------------------------------- strings
\* strings.ToLower on one word: the words of the model that carry capitals.
ToLower(w) ==
  CASE w = "No" -> "no"
    [] w = "Entity" -> "entity"
    [] w = "ENTITY" -> "entity"
    [] w = "DOES" -> "does"
    [] w = "NOT" -> "not"
    [] w = "EXIST" -> "exist"
    [] w = "Timeout" -> "timeout"
    [] w = "Running" -> "running"
    [] w = "Stopped" -> "stopped"
    [] w = "Destroyed" -> "destroyed"
    [] w = "DESTROYED" -> "destroyed"
    [] w = "Expunging" -> "expunging"
    [] w = "EXPUNGING" -> "expunging"
    [] w = "RUNNING" -> "running"
    [] w = "STOPPED" -> "stopped"
    [] w = "Starting" -> "starting"
    [] w = "STARTING" -> "starting"
    [] w = "Migrating" -> "migrating"
    [] w = "MIGRATING" -> "migrating"
    [] w = "Restoring" -> "restoring"
    [] w = "RESTORING" -> "restoring"
    [] w = "Stopping" -> "stopping"
    [] w = "STOPPING" -> "stopping"
    [] w = "Shutdown" -> "shutdown"
    [] w = "SHUTDOWN" -> "shutdown"
    [] w = "sTopPed" -> "stopped"
    [] w = "Error" -> "error"
    [] w = "Unknown" -> "unknown"
    [] w = "Allocated" -> "allocated"
    [] OTHER -> w

\* strings.ToLower on a text (a sequence of words).
ToLowerText(t) == [i \in 1..Len(t) |-> ToLower(t[i])]

\* strings.Contains on texts: sub occurs in t as a contiguous run of words.
Contains(t, sub) ==
  \E i \in 0..(Len(t) - Len(sub)) : \A j \in 1..Len(sub) : t[i + j] = sub[j]

\* strings.TrimSpace(identifier) == "" holds of the empty and the blank string.
TrimSpaceIsEmpty(s) == s \in {"", " "}

\* -------------------------------------------------------------- errors
\* A Go error value: nil, or a text and the sentinels errors.Is finds in its
\* chain of wrapped errors.
Nil == [nil |-> TRUE, is |-> {}, text |-> <<>>]

\* fmt.Errorf(text) / errors.New(text)
Errorf(text) == [nil |-> FALSE, is |-> {}, text |-> text]

\* fmt.Errorf("prefix: %w", err)
Wrap(prefix, err) == [nil |-> FALSE, is |-> err.is, text |-> prefix \o err.text]

\* garmErrors.ErrNotFound, the sentinel Stop/Destroy/Get absorb.
ErrNotFound == [nil |-> FALSE, is |-> {"ErrNotFound"}, text |-> <<"not", "found">>]

\* cs.AsyncTimeoutErr, the sentinel of the asynchronous client.
AsyncTimeoutErr ==
  [nil |-> FALSE, is |-> {"AsyncTimeoutErr"},
   text |-> <<"Timeout", "while", "waiting", "for", "async", "job", "to", "finish">>]

\* errors.Is(err, sentinel)
ErrorsIs(err, sentinel) == (~err.nil) /\ sentinel \in err.is

\* Mutant: the error text is searched without lower-casing it first.
IsCloudStackNotFoundErrCaseSensitive(err) ==
  IF err.nil THEN FALSE
  ELSE IF ErrorsIs(err, "AsyncTimeoutErr") THEN FALSE
  ELSE Contains(err.text, <<"no", "match", "found", "for">>)
       \/ Contains(err.text, <<"entity", "does", "not", "exist">>)

IsCloudStackNotFoundErr(err) ==
  IF err.nil THEN FALSE
  ELSE IF ErrorsIs(err, "AsyncTimeoutErr") THEN FALSE
  ELSE LET errLower == ToLowerText(err.text)
       IN  Contains(errLower, <<"no", "match", "found", "for">>)
           \/ Contains(errLower, <<"entity", "does", "not", "exist">>)


\* ---------------------------------------------------------- identities
\* Opaque platform IDs (UUID-shaped strings), in the order the platform
\* hands them out; the last one is never the ID of a VM.
AllIds == <<"u1", "u2", "u3", "u4", "u9">>
UnknownId == "u9"

\* cs.IsID(identifier): the identifier has the UUID shape.
IsID(s) == \E i \in 1..Len(AllIds) : AllIds[i] = s

Names == {"n1", "n2"}
PoolIDs == {"p1", "p2"}

\* CloudStackProvider.controllerID, fixed at construction.
controllerID == "c1"

\* Identifiers a caller hands to get/start/stop/destroy.
Identifiers == {" "} \cup Names \cup {AllIds[1], UnknownId}

VARIABLES
  vms,       \* the platform's VM records, in the order the platform lists them
  deployed,  \* how many VM records the platform has created so far
  cfg,       \* Config, the fields read from the configuration file
  resolved,  \* Config.resolved, the resolved identifier bundle
  ghost,     \* history of each VM ID: who deployed it, whether create returned it
  destroyed, \* identifiers with which DestroyInstance destroyed a VM successfully
  lastOp,    \* the provider operation that ran last, its remote calls and result
  inflight   \* the operations that run concurrently, each with its position

vars == <<vms, deployed, cfg, resolved, ghost, destroyed, lastOp, inflight>>

\* ------------------------------------------------------------ platform
NoTags == [k \in {} |-> ""]
Unset == "<unset>"

\* A nil *cs.VirtualMachine.
NilVM ==
  [Id |-> "<nil>", Name |-> "", Displayname |-> "", State |-> "", Tags |-> NoTags,
   Projectid |-> ""]

\* Config.ProjectID()
ProjectID == resolved.ProjectID

\* VirtualMachine.NewListVirtualMachinesParams()
NewListVirtualMachinesParams ==
  [id |-> Unset, name |-> Unset, listall |-> FALSE, tags |-> NoTags, projectid |-> Unset]

\* The platform's filter of listVirtualMachines: every parameter that is set
\* must match; without a project parameter only VMs outside projects are
\* listed, with one only the VMs of that project.
PlatformMatches(vm, p) ==
  /\ p.id = Unset \/ vm.Id = p.id
  /\ p.name = Unset \/ vm.Name = p.name
  /\ \A k \in DOMAIN p.tags : k \in DOMAIN vm.Tags /\ vm.Tags[k] = p.tags[k]
  /\ IF p.projectid = Unset THEN vm.Projectid = "" ELSE vm.Projectid = p.projectid

\* VirtualMachine.ListVirtualMachines(p): the call fails with `fault`, or
\* answers with the matching records in the platform's order.
ListVirtualMachines(p, fault) ==
  IF ~fault.nil
  THEN [err |-> fault, Count |-> 0, VirtualMachines |-> <<>>]
  ELSE LET found == SelectSeq(vms, LAMBDA vm : PlatformMatches(vm, p))
       IN  [err |-> Nil, Count |-> Len(found), VirtualMachines |-> found]

\* One entry of an operation's log of remote calls: the call, its
\* parameters, the error it came back with and, of the response, the
\* number of records (of a list call) or the new ID (of a deploy call).
Call(api, params, err, count, id) ==
  [api |-> api, params |-> params, err |-> err, count |-> count, id |-> id]

\* What the platform does to a VM's state when an action call takes effect.
PlatformNextState(api, state) ==
  CASE api = "startVirtualMachine" ->
         IF ToLower(state) = "stopped" THEN "Running" ELSE state
    [] api = "stopVirtualMachine" ->
         IF ToLower(state) = "running" THEN "Stopped" ELSE state
    [] api = "destroyVirtualMachine" ->
         IF ToLower(state) \in {"destroyed", "expunging"} THEN state ELSE "Destroyed"
    [] OTHER -> state

\* The VM list after an action call on VM `id`; `applied` says whether the
\* call took effect on the platform.
PlatformApply(api, id, applied) ==
  IF ~applied THEN vms
  ELSE [i \in 1..Len(vms) |->
          IF vms[i].Id = id
          THEN [vms[i] EXCEPT !.State = PlatformNextState(api, @)]
          ELSE vms[i]]

\* Errors a remote call can come back with.
InternalErr == Errorf(<<"internal", "server", "error">>)
NoMatchErr == Errorf(<<"No", "match", "found", "for", "virtualmachine">>)
EntityErr ==
  Errorf(<<"Invalid", "parameter", "id", "or", "ENTITY", "DOES", "NOT", "EXIST">>)
\* An async timeout wrapped around a text that has the not-found words.
TimeoutEntityErr == Wrap(<<"entity", "does", "not", "exist", "after">>, AsyncTimeoutErr)

ListFaults == {Nil, EntityErr}

\* Outcomes of an action call: the error it returns and whether it took
\* effect. A call that timed out may or may not have taken effect.
ActionOutcomes ==
  {[err |-> Nil, applied |-> TRUE]}
    \cup {[err |-> e, applied |-> FALSE] :
            e \in {InternalErr, NoMatchErr, EntityErr, TimeoutEntityErr}}
    \cup {[err |-> AsyncTimeoutErr, applied |-> TRUE]}

\* The platform answers only the calls that are issued: the outcomes to draw
\* for the action call that follows a lookup.
NoOutcome == [err |-> Nil, applied |-> FALSE]
OutcomesAfter(lookupErr) == IF lookupErr.nil THEN ActionOutcomes ELSE {NoOutcome}

\* -------------------------------------------------------------- client
\* Mutant: a name that matches several VMs yields the first of them.
FindOneInstanceFirstMatch(ctrlID, identifier, fault) ==
  IF TrimSpaceIsEmpty(identifier)
  THEN [vm |-> NilVM, err |-> Errorf(<<"empty", "identifier">>), calls |-> <<>>]
  ELSE IF IsID(identifier)
  THEN LET p0 == [NewListVirtualMachinesParams EXCEPT !.id = identifier, !.listall = TRUE]
           p == IF ProjectID # "" THEN [p0 EXCEPT !.projectid = ProjectID] ELSE p0
           resp == ListVirtualMachines(p, fault)
           calls == <<Call("listVirtualMachines", p, resp.err, resp.Count, "")>>
       IN  IF ~resp.err.nil
           THEN [vm |-> NilVM, calls |-> calls,
                 err |-> Wrap(<<"failed", "to", "get", "instance", identifier>>, resp.err)]
           ELSE IF resp.Count = 0
           THEN [vm |-> NilVM, calls |-> calls,
                 err |-> Wrap(<<"no", "such", "instance", identifier>>, ErrNotFound)]
           ELSE [vm |-> resp.VirtualMachines[1], calls |-> calls, err |-> Nil]
  ELSE LET p0 == [NewListVirtualMachinesParams EXCEPT !.name = identifier, !.listall = TRUE]
           p1 == IF ProjectID # "" THEN [p0 EXCEPT !.projectid = ProjectID] ELSE p0
           p == IF ctrlID # ""
                THEN [p1 EXCEPT !.tags = [k \in {"GARM_CONTROLLER_ID"} |-> ctrlID]]
                ELSE p1
           resp == ListVirtualMachines(p, fault)
           calls == <<Call("listVirtualMachines", p, resp.err, resp.Count, "")>>
       IN  IF ~resp.err.nil
           THEN [vm |-> NilVM, calls |-> calls,
                 err |-> Wrap(<<"failed", "to", "list", "instances">>, resp.err)]
           ELSE IF resp.Count = 0
           THEN [vm |-> NilVM, calls |-> calls,
                 err |-> Wrap(<<"no", "such", "instance", identifier>>, ErrNotFound)]
           ELSE [vm |-> resp.VirtualMachines[1], calls |-> calls, err |-> Nil]

\* Mutant: the controller tag filter is set even for an empty controller ID.
FindOneInstanceAlwaysTagFilter(ctrlID, identifier, fault) ==
  IF TrimSpaceIsEmpty(identifier)
  THEN [vm |-> NilVM, err |-> Errorf(<<"empty", "identifier">>), calls |-> <<>>]
  ELSE IF IsID(identifier)
  THEN LET p0 == [NewListVirtualMachinesParams EXCEPT !.id = identifier, !.listall = TRUE]
           p == IF ProjectID # "" THEN [p0 EXCEPT !.projectid = ProjectID] ELSE p0
           resp == ListVirtualMachines(p, fault)
           calls == <<Call("listVirtualMachines", p, resp.err, resp.Count, "")>>
       IN  IF ~resp.err.nil
           THEN [vm |-> NilVM, calls |-> calls,
                 err |-> Wrap(<<"failed", "to", "get", "instance", identifier>>, resp.err)]
           ELSE IF resp.Count = 0
           THEN [vm |-> NilVM, calls |-> calls,
                 err |-> Wrap(<<"no", "such", "instance", identifier>>, ErrNotFound)]
           ELSE [vm |-> resp.VirtualMachines[1], calls |-> calls, err |-> Nil]
  ELSE LET p0 == [NewListVirtualMachinesParams EXCEPT !.name = identifier, !.listall = TRUE]
           p1 == IF ProjectID # "" THEN [p0 EXCEPT !.projectid = ProjectID] ELSE p0
           p == [p1 EXCEPT !.tags = [k \in {"GARM_CONTROLLER_ID"} |-> ctrlID]]
           resp == ListVirtualMachines(p, fault)
           calls == <<Call("listVirtualMachines", p, resp.err, resp.Count, "")>>
       IN  IF ~resp.err.nil
           THEN [vm |-> NilVM, calls |-> calls,
                 err |-> Wrap(<<"failed", "to", "list", "instances">>, resp.err)]
           ELSE IF resp.Count = 0
           THEN [vm |-> NilVM, calls |-> calls,
                 err |-> Wrap(<<"no", "such", "instance", identifier>>, ErrNotFound)]
           ELSE IF resp.Count > 1
           THEN [vm |-> NilVM, calls |-> calls,
                 err |-> Errorf(<<"found", "more", "than", "one", "instance",
                                  "with", "name", identifier>>)]
           ELSE [vm |-> resp.VirtualMachines[1], calls |-> calls, err |-> Nil]

FindOneInstance(ctrlID, identifier, fault) ==
  IF TrimSpaceIsEmpty(identifier)
  THEN [vm |-> NilVM, err |-> Errorf(<<"empty", "identifier">>), calls |-> <<>>]
  ELSE IF IsID(identifier)
  THEN LET p0 == [NewListVirtualMachinesParams EXCEPT !.id = identifier, !.listall = TRUE]
           p == IF ProjectID # "" THEN [p0 EXCEPT !.projectid = ProjectID] ELSE p0
           resp == ListVirtualMachines(p, fault)
           calls == <<Call("listVirtualMachines", p, resp.err, resp.Count, "")>>
       IN  IF ~resp.err.nil
           THEN [vm |-> NilVM, calls |-> calls,
                 err |-> Wrap(<<"failed", "to", "get", "instance", identifier>>, resp.err)]
           ELSE IF resp.Count = 0
           THEN [vm |-> NilVM, calls |-> calls,
                 err |-> Wrap(<<"no", "such", "instance", identifier>>, ErrNotFound)]
           ELSE [vm |-> resp.VirtualMachines[1], calls |-> calls, err |-> Nil]
  ELSE LET p0 == [NewListVirtualMachinesParams EXCEPT !.name = identifier, !.listall = TRUE]
           p1 == IF ProjectID # "" THEN [p0 EXCEPT !.projectid = ProjectID] ELSE p0
           p == IF ctrlID # ""
                THEN [p1 EXCEPT !.tags = [k \in {"GARM_CONTROLLER_ID"} |-> ctrlID]]
                ELSE p1
           resp == ListVirtualMachines(p, fault)
           calls == <<Call("listVirtualMachines", p, resp.err, resp.Count, "")>>
       IN  IF ~resp.err.nil
           THEN [vm |-> NilVM, calls |-> calls,
                 err |-> Wrap(<<"failed", "to", "list", "instances">>, resp.err)]
           ELSE IF resp.Count = 0
           THEN [vm |-> NilVM, calls |-> calls,
                 err |-> Wrap(<<"no", "such", "instance", identifier>>, ErrNotFound)]
           ELSE IF resp.Count > 1
           THEN [vm |-> NilVM, calls |-> calls,
                 err |-> Errorf(<<"found", "more", "than", "one", "instance",
                                  "with", "name", identifier>>)]
           ELSE [vm |-> resp.VirtualMachines[1], calls |-> calls, err |-> Nil]

\* Mutant: the list is not restricted to the pool.
ListInstancesByPoolAnyPool(ctrlID, poolID, fault) ==
  LET p0 == [NewListVirtualMachinesParams EXCEPT
               !.listall = TRUE,
               !.tags = [k \in {"GARM_CONTROLLER_ID"} |-> ctrlID]]
      p == IF ProjectID # "" THEN [p0 EXCEPT !.projectid = ProjectID] ELSE p0
      resp == ListVirtualMachines(p, fault)
      calls == <<Call("listVirtualMachines", p, resp.err, resp.Count, "")>>
      keep(vm) == LET state == ToLower(vm.State)
                  IN  ~(state = "destroyed" \/ state = "expunging")
  IN  IF ~resp.err.nil
      THEN [out |-> <<>>, calls |-> calls,
            err |-> Wrap(<<"failed", "to", "list", "instances">>, resp.err)]
      ELSE [out |-> SelectSeq(resp.VirtualMachines, keep), calls |-> calls, err |-> Nil]

\* Mutant: the state is compared without lower-casing it.
ListInstancesByPoolCaseSensitive(ctrlID, poolID, fault) ==
  LET p0 == [NewListVirtualMachinesParams EXCEPT
               !.listall = TRUE,
               !.tags = [k \in {"GARM_CONTROLLER_ID", "GARM_POOL_ID"} |->
                           IF k = "GARM_CONTROLLER_ID" THEN ctrlID ELSE poolID]]
      p == IF ProjectID # "" THEN [p0 EXCEPT !.projectid = ProjectID] ELSE p0
      resp == ListVirtualMachines(p, fault)
      calls == <<Call("listVirtualMachines", p, resp.err, resp.Count, "")>>
      keep(vm) == LET state == vm.State
                  IN  ~(state = "destroyed" \/ state = "expunging")
  IN  IF ~resp.err.nil
      THEN [out |-> <<>>, calls |-> calls,
            err |-> Wrap(<<"failed", "to", "list", "instances">>, resp.err)]
      ELSE [out |-> SelectSeq(resp.VirtualMachines, keep), calls |-> calls, err |-> Nil]

ListInstancesByPool(ctrlID, poolID, fault) ==
  LET p0 == [NewListVirtualMachinesParams EXCEPT
               !.listall = TRUE,
               !.tags = [k \in {"GARM_CONTROLLER_ID", "GARM_POOL_ID"} |->
                           IF k = "GARM_CONTROLLER_ID" THEN ctrlID ELSE poolID]]
      p == IF ProjectID # "" THEN [p0 EXCEPT !.projectid = ProjectID] ELSE p0
      resp == ListVirtualMachines(p, fault)
      calls == <<Call("listVirtualMachines", p, resp.err, resp.Count, "")>>
      keep(vm) == LET state == ToLower(vm.State)
                  IN  ~(state = "destroyed" \/ state = "expunging")
  IN  IF ~resp.err.nil
      THEN [out |-> <<>>, calls |-> calls,
            err |-> Wrap(<<"failed", "to", "list", "instances">>, resp.err)]
      ELSE [out |-> SelectSeq(resp.VirtualMachines, keep), calls |-> calls, err |-> Nil]

\* Mutant: a start call that failed is issued a second time.
StartInstanceRetries(identifier, fault, outcome) ==
  LET found == FindOneInstance("", identifier, fault)
      params == [id |-> found.vm.Id]
      call == Call("startVirtualMachine", params, outcome.err, 0, "")
  IN  IF ~found.err.nil
      THEN [err |-> found.err, calls |-> found.calls, vms |-> vms]
      ELSE [calls |-> IF ~outcome.err.nil
                      THEN found.calls \o <<call, call>>
                      ELSE Append(found.calls, call),
            vms |-> PlatformApply("startVirtualMachine", found.vm.Id, outcome.applied),
            err |-> IF ~outcome.err.nil
                    THEN Wrap(<<"failed", "to", "start", "instance">>, outcome.err)
                    ELSE Nil]

\* Mutant: start absorbs a not-found lookup, as stop and destroy do.
StartInstanceAbsorbs(identifier, fault, outcome) ==
  LET found == FindOneInstance("", identifier, fault)
      params == [id |-> found.vm.Id]
  IN  IF ~found.err.nil
      THEN [calls |-> found.calls, vms |-> vms,
            err |-> IF ErrorsIs(found.err, "ErrNotFound") THEN Nil ELSE found.err]
      ELSE [calls |-> Append(found.calls, Call("startVirtualMachine", params, outcome.err, 0, "")),
            vms |-> PlatformApply("startVirtualMachine", found.vm.Id, outcome.applied),
            err |-> IF ~outcome.err.nil
                    THEN Wrap(<<"failed", "to", "start", "instance">>, outcome.err)
                    ELSE Nil]

StartInstance(identifier, fault, outcome) ==
  LET found == FindOneInstance("", identifier, fault)
      params == [id |-> found.vm.Id]
  IN  IF ~found.err.nil
      THEN [err |-> found.err, calls |-> found.calls, vms |-> vms]
      ELSE [calls |-> Append(found.calls, Call("startVirtualMachine", params, outcome.err, 0, "")),
            vms |-> PlatformApply("startVirtualMachine", found.vm.Id, outcome.applied),
            err |-> IF ~outcome.err.nil
                    THEN Wrap(<<"failed", "to", "start", "instance">>, outcome.err)
                    ELSE Nil]

\* Mutant: stop looks the instance up with the provider's controller ID.
StopInstanceOwnController(identifier, force, fault, outcome) ==
  LET found == FindOneInstance(controllerID, identifier, fault)
      params == [id |-> found.vm.Id, forced |-> force]
  IN  IF ~found.err.nil
      THEN [calls |-> found.calls, vms |-> vms,
            err |-> IF ErrorsIs(found.err, "ErrNotFound") THEN Nil ELSE found.err]
      ELSE [calls |-> Append(found.calls, Call("stopVirtualMachine", params, outcome.err, 0, "")),
            vms |-> PlatformApply("stopVirtualMachine", found.vm.Id, outcome.applied),
            err |-> IF ~outcome.err.nil /\ ~IsCloudStackNotFoundErr(outcome.err)
                    THEN Wrap(<<"failed", "to", "stop", "instance">>, outcome.err)
                    ELSE Nil]

\* Mutant: stop returns every error of the action call.
StopInstanceNoAbsorb(identifier, force, fault, outcome) ==
  LET found == FindOneInstance("", identifier, fault)
      params == [id |-> found.vm.Id, forced |-> force]
  IN  IF ~found.err.nil
      THEN [calls |-> found.calls, vms |-> vms,
            err |-> IF ErrorsIs(found.err, "ErrNotFound") THEN Nil ELSE found.err]
      ELSE [calls |-> Append(found.calls, Call("stopVirtualMachine", params, outcome.err, 0, "")),
            vms |-> PlatformApply("stopVirtualMachine", found.vm.Id, outcome.applied),
            err |-> IF ~outcome.err.nil
                    THEN Wrap(<<"failed", "to", "stop", "instance">>, outcome.err)
                    ELSE Nil]

StopInstance(identifier, force, fault, outcome) ==
  LET found == FindOneInstance("", identifier, fault)
      params == [id |-> found.vm.Id, forced |-> force]
  IN  IF ~found.err.nil
      THEN [calls |-> found.calls, vms |-> vms,
            err |-> IF ErrorsIs(found.err, "ErrNotFound") THEN Nil ELSE found.err]
      ELSE [calls |-> Append(found.calls, Call("stopVirtualMachine", params, outcome.err, 0, "")),
            vms |-> PlatformApply("stopVirtualMachine", found.vm.Id, outcome.applied),
            err |-> IF ~outcome.err.nil
                    THEN IF IsCloudStackNotFoundErr(outcome.err)
                         THEN Nil
                         ELSE Wrap(<<"failed", "to", "stop", "instance">>, outcome.err)
                    ELSE Nil]

\* Mutant: destroy absorbs every lookup error that reads as not found.
DestroyInstanceAbsorbsByText(identifier, fault, outcome) ==
  LET found == FindOneInstance("", identifier, fault)
      params == [id |-> found.vm.Id]
  IN  IF ~found.err.nil
      THEN [calls |-> found.calls, vms |-> vms,
            err |-> IF ErrorsIs(found.err, "ErrNotFound") \/ IsCloudStackNotFoundErr(found.err)
                    THEN Nil ELSE found.err]
      ELSE [calls |-> Append(found.calls, Call("destroyVirtualMachine", params, outcome.err, 0, "")),
            vms |-> PlatformApply("destroyVirtualMachine", found.vm.Id, outcome.applied),
            err |-> IF ~outcome.err.nil
                    THEN IF IsCloudStackNotFoundErr(outcome.err)
                         THEN Nil
                         ELSE Wrap(<<"failed", "to", "destroy", "instance">>, outcome.err)
                    ELSE Nil]

\* Mutant: destroy returns a not-found lookup as an error.
DestroyInstancePropagates(identifier, fault, outcome) ==
  LET found == FindOneInstance("", identifier, fault)
      params == [id |-> found.vm.Id]
  IN  IF ~found.err.nil
      THEN [calls |-> found.calls, vms |-> vms, err |-> found.err]
      ELSE [calls |-> Append(found.calls, Call("destroyVirtualMachine", params, outcome.err, 0, "")),
            vms |-> PlatformApply("destroyVirtualMachine", found.vm.Id, outcome.applied),
            err |-> IF ~outcome.err.nil
                    THEN IF IsCloudStackNotFoundErr(outcome.err)
                         THEN Nil
                         ELSE Wrap(<<"failed", "to", "destroy", "instance">>, outcome.err)
                    ELSE Nil]

DestroyInstance(identifier, fault, outcome) ==
  LET found == FindOneInstance("", identifier, fault)
      params == [id |-> found.vm.Id]
  IN  IF ~found.err.nil
      THEN [calls |-> found.calls, vms |-> vms,
            err |-> IF ErrorsIs(found.err, "ErrNotFound") THEN Nil ELSE found.err]
      ELSE [calls |-> Append(found.calls, Call("destroyVirtualMachine", params, outcome.err, 0, "")),
            vms |-> PlatformApply("destroyVirtualMachine", found.vm.Id, outcome.applied),
            err |-> IF ~outcome.err.nil
                    THEN IF IsCloudStackNotFoundErr(outcome.err)
                         THEN Nil
                         ELSE Wrap(<<"failed", "to", "destroy", "instance">>, outcome.err)
                    ELSE Nil]


\* ---------------------------------------------------------- runner spec
Absent == "<absent>"

\* The properties the extra-specs schema allows (additional ones rejected).
SchemaProperties ==
  {"zone_id", "service_offering_id", "template_id", "network_ids", "ssh_key_name",
   "project_id", "disable_updates", "enable_boot_debug", "extra_packages",
   "runner_install_template", "pre_install_scripts", "extra_context"}

\* An override document: a zero-length one, or a JSON object given by its
\* properties.
NoProps == [k \in {} |-> ""]
NoDoc == [empty |-> TRUE, props |-> NoProps]
Doc(props) == [empty |-> FALSE, props |-> props]

\* jsonSchemaValidation(schema)
jsonSchemaValidation(doc) ==
  IF DOMAIN doc.props \subseteq SchemaProperties
  THEN Nil
  ELSE Errorf(<<"schema", "validation", "failed">>)

\* json.Unmarshal into extraSpecs: a pointer field is nil unless the
\* document has the property.
Unmarshal(doc) ==
  [f \in {"zone_id", "service_offering_id", "template_id", "ssh_key_name", "project_id"} |->
     IF f \in DOMAIN doc.props THEN doc.props[f] ELSE Absent]

\* Mutant: the document is deserialized without the schema validation.
newExtraSpecsFromBootstrapDataUnvalidated(data) ==
  IF data.ExtraSpecs.empty
  THEN [spec |-> Unmarshal(NoDoc), err |-> Nil]
  ELSE [spec |-> Unmarshal(data.ExtraSpecs), err |-> Nil]

newExtraSpecsFromBootstrapData(data) ==
  IF data.ExtraSpecs.empty
  THEN [spec |-> Unmarshal(NoDoc), err |-> Nil]
  ELSE LET verr == jsonSchemaValidation(data.ExtraSpecs)
       IN  IF ~verr.nil
           THEN [spec |-> Unmarshal(NoDoc),
                 err |-> Wrap(<<"failed", "to", "validate", "extra", "specs">>, verr)]
           ELSE [spec |-> Unmarshal(data.ExtraSpecs), err |-> Nil]

\* Mutant: an override that is present replaces the base value, empty or not.
MergeFieldWhenPresent(base, override) ==
  IF override # Absent THEN override ELSE base

\* One scalar override of MergeExtraSpecs: taken when present and non-empty.
MergeField(base, override) ==
  IF override # Absent /\ override # "" THEN override ELSE base

MergeExtraSpecs(r, extra) ==
  [r EXCEPT !.ZoneID = MergeField(@, extra["zone_id"]),
            !.ServiceOfferingID = MergeField(@, extra["service_offering_id"]),
            !.TemplateID = MergeField(@, extra["template_id"]),
            !.SSHKeyName = MergeField(@, extra["ssh_key_name"]),
            !.ProjectID = MergeField(@, extra["project_id"])]

\* Mutant: the bootstrap name is not looked at.
ValidateIDsOnly(r) ==
  IF r.ZoneID = "" THEN Errorf(<<"missing", "zone_id">>)
  ELSE IF r.ServiceOfferingID = "" THEN Errorf(<<"missing", "service_offering_id">>)
  ELSE IF r.TemplateID = "" THEN Errorf(<<"missing", "template_id">>)
  ELSE Nil

\* RunnerSpec.Validate
Validate(r) ==
  IF r.ZoneID = "" THEN Errorf(<<"missing", "zone_id">>)
  ELSE IF r.ServiceOfferingID = "" THEN Errorf(<<"missing", "service_offering_id">>)
  ELSE IF r.TemplateID = "" THEN Errorf(<<"missing", "template_id">>)
  ELSE IF r.BootstrapParams.Name = "" THEN Errorf(<<"missing", "bootstrap", "params">>)
  ELSE Nil

NilSpec == [nil |-> TRUE]

GetRunnerSpecFromBootstrapParams(data, ctrlID, toolsErr) ==
  IF ~toolsErr.nil
  THEN [spec |-> NilSpec, err |-> Errorf(<<"failed", "to", "get", "tools">> \o toolsErr.text)]
  ELSE LET extra == newExtraSpecsFromBootstrapData(data)
           base == [nil |-> FALSE,
                    ZoneID |-> resolved.ZoneID,
                    ServiceOfferingID |-> resolved.ServiceOfferingID,
                    TemplateID |-> resolved.TemplateID,
                    SSHKeyName |-> cfg.SSHKeyName,
                    ProjectID |-> resolved.ProjectID,
                    BootstrapParams |-> data,
                    ControllerID |-> ctrlID]
           spec == MergeExtraSpecs(base, extra.spec)
           verr == Validate(spec)
       IN  IF ~extra.err.nil
           THEN [spec |-> NilSpec,
                 err |-> Wrap(<<"error", "loading", "extra", "specs">>, extra.err)]
           ELSE IF ~verr.nil
           THEN [spec |-> NilSpec, err |-> Wrap(<<"error", "validating", "spec">>, verr)]
           ELSE [spec |-> spec, err |-> Nil]

\* Byte strings: raw bytes with their length and text, and what the
\* encoders make of them.
Bytes(len, text) == [kind |-> "bytes", len |-> len, text |-> text]
Gzip(b) == [kind |-> "gzip", data |-> b]
Zip(name, b) == [kind |-> "zip", entries |-> <<[name |-> name, data |-> b]>>]
Base64(b) == [kind |-> "base64", data |-> b]

\* The length from which user data is compressed, 1<<14.
CompressFrom == 16384

\* Mutant: user data is compressed only above the limit, not from it.
maybeCompressUserdataAboveLimit(udata, targetOS) ==
  IF udata.len <= CompressFrom THEN udata
  ELSE IF targetOS = "windows" THEN Zip("udata", udata)
  ELSE Gzip(udata)

maybeCompressUserdata(udata, targetOS) ==
  IF udata.len < CompressFrom THEN udata
  ELSE IF targetOS = "windows" THEN Zip("udata", udata)
  ELSE Gzip(udata)

\* The end of ComposeUserData: compression and base64 encoding.
EncodeUserData(udata, osType) == Base64(maybeCompressUserdata(udata, osType))

\* cloudconfig.GetCloudConfig: the cloud config rendered for the request.
GetCloudConfig(bootstrapParams) == Bytes(1024, <<"cloud-config", bootstrapParams.Name>>)

\* The Windows wrapping of the cloud config.
PowershellWrap(cloudCfg) ==
  Bytes(cloudCfg.len + 25, <<"<powershell>">> \o cloudCfg.text \o <<"</powershell>">>)

\* RunnerSpec.ComposeUserData: the cloud config of a supported OS type,
\* compressed if long and base64-encoded; cloudCfgErr is the failure of
\* cloudconfig.GetCloudConfig.
ComposeUserData(r, cloudCfgErr) ==
  IF r.BootstrapParams.OSType \in {"linux", "windows"}
  THEN IF ~cloudCfgErr.nil
       THEN [udata |-> "", err |-> Wrap(<<"failed", "to", "generate", "userdata">>, cloudCfgErr)]
       ELSE [udata |-> EncodeUserData(
                         IF r.BootstrapParams.OSType = "windows"
                         THEN PowershellWrap(GetCloudConfig(r.BootstrapParams))
                         ELSE GetCloudConfig(r.BootstrapParams),
                         r.BootstrapParams.OSType),
             err |-> Nil]
  ELSE [udata |-> "",
        err |-> Errorf(<<"unsupported", "OS", "type", "for", "cloud", "config">>)]

\* ------------------------------------------------------ create on platform
\* The ID the platform gives the next VM it creates.
NextId == AllIds[deployed + 1]

\* Outcomes of deployVirtualMachine: the error and ID it returns and whether
\* a VM record was created. A deployment that timed out has created the VM.
DeployOutcomes ==
  <<[err |-> Nil, Id |-> NextId, created |-> TRUE],
    [err |-> Nil, Id |-> "", created |-> FALSE],
    [err |-> InternalErr, Id |-> "", created |-> FALSE],
    [err |-> AsyncTimeoutErr, Id |-> "", created |-> TRUE]>>

\* The VM list after deployVirtualMachine(params).
PlatformDeploy(params, created) ==
  IF ~created THEN vms
  ELSE Append(vms, [Id |-> NextId, Name |-> params.name,
                    Displayname |-> params.displayname, State |-> "Running",
                    Tags |-> NoTags, Projectid |-> params.projectid])

\* The VM list after createTags(ids, "UserVm", tags) on the list `list`.
PlatformCreateTags(list, id, tags) ==
  [i \in 1..Len(list) |->
     IF list[i].Id = id
     THEN [list[i] EXCEPT !.Tags =
             [k \in (DOMAIN tags) \cup (DOMAIN @) |-> IF k \in DOMAIN tags THEN tags[k] ELSE @[k]]]
     ELSE list[i]]

\* Mutant: the result of the tagging call is not looked at.
CreateRunningInstanceIgnoresTagErr(spec, cloudCfgErr, deploy, tagErr) ==
  IF spec.nil
  THEN [id |-> "", err |-> Errorf(<<"invalid", "nil", "runner", "spec">>),
        calls |-> <<>>, vms |-> vms]
  ELSE
  LET composed == ComposeUserData(spec, cloudCfgErr)
      params == [serviceofferingid |-> spec.ServiceOfferingID,
                 templateid |-> spec.TemplateID,
                 zoneid |-> spec.ZoneID,
                 name |-> spec.BootstrapParams.Name,
                 displayname |-> spec.BootstrapParams.Name,
                 userdata |-> composed.udata,
                 keypair |-> IF spec.SSHKeyName # "" THEN spec.SSHKeyName ELSE Unset,
                 projectid |-> IF spec.ProjectID # "" THEN spec.ProjectID ELSE ""]
      deployCall == Call("deployVirtualMachine", params, deploy.err, 0, deploy.Id)
      afterDeploy == PlatformDeploy(params, deploy.created)
      tags == [k \in {"GARM_CONTROLLER_ID", "GARM_POOL_ID", "Name", "OSType", "OSArch"} |->
                 CASE k = "GARM_CONTROLLER_ID" -> spec.ControllerID
                   [] k = "GARM_POOL_ID" -> spec.BootstrapParams.PoolID
                   [] k = "Name" -> spec.BootstrapParams.Name
                   [] k = "OSType" -> spec.BootstrapParams.OSType
                   [] OTHER -> spec.BootstrapParams.OSArch]
      tagCall == Call("createTags", [resourceids |-> <<deploy.Id>>, tags |-> tags], tagErr,
                      0, "")
  IN  IF ~composed.err.nil
      THEN [id |-> "", calls |-> <<>>, vms |-> vms,
            err |-> Wrap(<<"failed", "to", "compose", "user", "data">>, composed.err)]
      ELSE IF ~deploy.err.nil
      THEN [id |-> "", calls |-> <<deployCall>>, vms |-> afterDeploy,
            err |-> Wrap(<<"failed", "to", "deploy", "virtual", "machine">>, deploy.err)]
      ELSE IF deploy.Id = ""
      THEN [id |-> "", calls |-> <<deployCall>>, vms |-> afterDeploy,
            err |-> Errorf(<<"empty", "VM", "id", "in", "deploy", "response">>)]
      ELSE [id |-> deploy.Id, calls |-> <<deployCall, tagCall>>, err |-> Nil,
            vms |-> IF tagErr.nil
                    THEN PlatformCreateTags(afterDeploy, deploy.Id, tags)
                    ELSE afterDeploy]

CreateRunningInstance(spec, cloudCfgErr, deploy, tagErr) ==
  IF spec.nil
  THEN [id |-> "", err |-> Errorf(<<"invalid", "nil", "runner", "spec">>),
        calls |-> <<>>, vms |-> vms]
  ELSE
  LET composed == ComposeUserData(spec, cloudCfgErr)
      params == [serviceofferingid |-> spec.ServiceOfferingID,
                 templateid |-> spec.TemplateID,
                 zoneid |-> spec.ZoneID,
                 name |-> spec.BootstrapParams.Name,
                 displayname |-> spec.BootstrapParams.Name,
                 userdata |-> composed.udata,
                 keypair |-> IF spec.SSHKeyName # "" THEN spec.SSHKeyName ELSE Unset,
                 projectid |-> IF spec.ProjectID # "" THEN spec.ProjectID ELSE ""]
      deployCall == Call("deployVirtualMachine", params, deploy.err, 0, deploy.Id)
      afterDeploy == PlatformDeploy(params, deploy.created)
      tags == [k \in {"GARM_CONTROLLER_ID", "GARM_POOL_ID", "Name", "OSType", "OSArch"} |->
                 CASE k = "GARM_CONTROLLER_ID" -> spec.ControllerID
                   [] k = "GARM_POOL_ID" -> spec.BootstrapParams.PoolID
                   [] k = "Name" -> spec.BootstrapParams.Name
                   [] k = "OSType" -> spec.BootstrapParams.OSType
                   [] OTHER -> spec.BootstrapParams.OSArch]
      tagCall == Call("createTags", [resourceids |-> <<deploy.Id>>, tags |-> tags], tagErr,
                      0, "")
  IN  IF ~composed.err.nil
      THEN [id |-> "", calls |-> <<>>, vms |-> vms,
            err |-> Wrap(<<"failed", "to", "compose", "user", "data">>, composed.err)]
      ELSE IF ~deploy.err.nil
      THEN [id |-> "", calls |-> <<deployCall>>, vms |-> afterDeploy,
            err |-> Wrap(<<"failed", "to", "deploy", "virtual", "machine">>, deploy.err)]
      ELSE IF deploy.Id = ""
      THEN [id |-> "", calls |-> <<deployCall>>, vms |-> afterDeploy,
            err |-> Errorf(<<"empty", "VM", "id", "in", "deploy", "response">>)]
      ELSE IF ~tagErr.nil
      THEN [id |-> "", calls |-> <<deployCall, tagCall>>, vms |-> afterDeploy,
            err |-> Wrap(<<"failed", "to", "tag", "VM">>, tagErr)]
      ELSE [id |-> deploy.Id, calls |-> <<deployCall, tagCall>>,
            vms |-> PlatformCreateTags(afterDeploy, deploy.Id, tags), err |-> Nil]

\* ---------------------------------------------------------- conversion
NoInstance == [ProviderID |-> "", Name |-> "", OSType |-> "", OSArch |-> "", Status |-> ""]

\* Mutant: destroyed and expunging are no states the conversion knows.
CloudStackInstanceToParamsInstanceGoneUnknown(vm) ==
  IF vm = NilVM
  THEN [inst |-> NoInstance, err |-> Errorf(<<"nil", "virtual", "machine">>)]
  ELSE IF vm.Id = ""
  THEN [inst |-> NoInstance, err |-> Errorf(<<"virtual", "machine", "has", "empty", "id">>)]
  ELSE LET tag(k) == IF k \in DOMAIN vm.Tags THEN vm.Tags[k] ELSE ""
           s == ToLower(vm.State)
       IN  [err |-> Nil,
            inst |-> [ProviderID |-> vm.Id,
                      Name |-> IF vm.Displayname # "" THEN vm.Displayname ELSE tag("Name"),
                      OSType |-> tag("OSType"),
                      OSArch |-> tag("OSArch"),
                      Status |->
                        IF s \in {"running", "starting", "migrating", "restoring", "stopping"}
                        THEN "running"
                        ELSE IF s \in {"stopped", "shutdown"}
                        THEN "stopped"
                        ELSE "unknown"]]

\* Mutant: the raw state is compared without lower-casing it.
CloudStackInstanceToParamsInstanceCaseSensitive(vm) ==
  IF vm = NilVM
  THEN [inst |-> NoInstance, err |-> Errorf(<<"nil", "virtual", "machine">>)]
  ELSE IF vm.Id = ""
  THEN [inst |-> NoInstance, err |-> Errorf(<<"virtual", "machine", "has", "empty", "id">>)]
  ELSE LET tag(k) == IF k \in DOMAIN vm.Tags THEN vm.Tags[k] ELSE ""
           s == vm.State
       IN  [err |-> Nil,
            inst |-> [ProviderID |-> vm.Id,
                      Name |-> IF vm.Displayname # "" THEN vm.Displayname ELSE tag("Name"),
                      OSType |-> tag("OSType"),
                      OSArch |-> tag("OSArch"),
                      Status |->
                        IF s \in {"running", "starting", "migrating", "restoring", "stopping"}
                        THEN "running"
                        ELSE IF s \in {"stopped", "shutdown", "destroyed", "expunging"}
                        THEN "stopped"
                        ELSE "unknown"]]

\* util.CloudStackInstanceToParamsInstance
CloudStackInstanceToParamsInstance(vm) ==
  IF vm = NilVM
  THEN [inst |-> NoInstance, err |-> Errorf(<<"nil", "virtual", "machine">>)]
  ELSE IF vm.Id = ""
  THEN [inst |-> NoInstance, err |-> Errorf(<<"virtual", "machine", "has", "empty", "id">>)]
  ELSE LET tag(k) == IF k \in DOMAIN vm.Tags THEN vm.Tags[k] ELSE ""
           s == ToLower(vm.State)
       IN  [err |-> Nil,
            inst |-> [ProviderID |-> vm.Id,
                      Name |-> IF vm.Displayname # "" THEN vm.Displayname ELSE tag("Name"),
                      OSType |-> tag("OSType"),
                      OSArch |-> tag("OSArch"),
                      Status |->
                        IF s \in {"running", "starting", "migrating", "restoring", "stopping"}
                        THEN "running"
                        ELSE IF s \in {"stopped", "shutdown", "destroyed", "expunging"}
                        THEN "stopped"
                        ELSE "unknown"]]


\* ------------------------------------------------------------ provider
\* Inputs of the create operation: bootstrap requests of two pools, with and
\* without an override document, and requests that do not pass validation.
Bootstrap(name, pool, os, doc) ==
  [Name |-> name, PoolID |-> pool, OSType |-> os, OSArch |-> "amd64", ExtraSpecs |-> doc]
BootstrapInstances ==
  {Bootstrap("n1", "p1", "linux", NoDoc),
   Bootstrap("n1", "p2", "linux", NoDoc),
   Bootstrap("n1", "p1", "linux", Doc([k \in {"project_id"} |-> "pj2"])),
   Bootstrap("n1", "p1", "linux", Doc([k \in {"project_id"} |-> ""])),
   Bootstrap("n1", "p1", "linux", Doc([k \in {"invalid", "project_id"} |-> "pj2"])),
   Bootstrap("n1", "p1", "other", NoDoc),
   Bootstrap("", "p1", "linux", NoDoc)}

\* What can go wrong in one create operation: nothing, or one of its calls.
CreateFaults ==
  LET ok == [toolsErr |-> Nil, cloudCfgErr |-> Nil, deploy |-> 1, tagErr |-> Nil]
  IN  {ok,
       [ok EXCEPT !.toolsErr = InternalErr],
       [ok EXCEPT !.cloudCfgErr = InternalErr],
       [ok EXCEPT !.deploy = 2],
       [ok EXCEPT !.deploy = 3],
       [ok EXCEPT !.deploy = 4],
       [ok EXCEPT !.tagErr = InternalErr]}

\* The record of the operation that ran last.
Op(op, arg, r, out) ==
  [op |-> op, arg |-> arg, err |-> r.err, calls |-> r.calls, out |-> out]
NoOp == [op |-> "none", arg |-> "", err |-> Nil, calls |-> <<>>, out |-> <<>>]

\* The history entry of each VM record the platform created in this step.
GhostAfter(newVms, by, returned, pool) ==
  [id \in {newVms[i].Id : i \in 1..Len(newVms)} \cup DOMAIN ghost |->
     IF id \in DOMAIN ghost
     THEN ghost[id]
     ELSE [by |-> by, returned |-> returned, pool |-> pool]]

CreateInstance ==
  /\ lastOp.op = "none"
  /\ deployed < MaxVMs
  /\ \E bootstrapParams \in BootstrapInstances, f \in CreateFaults :
       LET built == GetRunnerSpecFromBootstrapParams(bootstrapParams, controllerID, f.toolsErr)
           r == CreateRunningInstance(built.spec, f.cloudCfgErr, DeployOutcomes[f.deploy],
                                      f.tagErr)
           inst == [ProviderID |-> r.id,
                    Name |-> bootstrapParams.Name,
                    OSType |-> bootstrapParams.OSType,
                    OSArch |-> bootstrapParams.OSArch,
                    Status |-> "running"]
       IN  IF ~built.err.nil
           THEN /\ lastOp' = Op("CreateInstance", bootstrapParams,
                                [err |-> Wrap(<<"failed", "to", "get", "runner", "spec">>, built.err),
                                 calls |-> <<>>], <<>>)
                /\ UNCHANGED <<vms, deployed, ghost>>
           ELSE /\ vms' = r.vms
                /\ deployed' = deployed + (Len(r.vms) - Len(vms))
                /\ ghost' = GhostAfter(r.vms,
                                       IF DeployOutcomes[f.deploy].err.nil
                                       THEN "CreateRunningInstance"
                                       ELSE "deployVirtualMachine timed out",
                                       r.err.nil, bootstrapParams.PoolID)
                /\ lastOp' =
                     IF ~r.err.nil
                     THEN Op("CreateInstance", bootstrapParams,
                             [err |-> Wrap(<<"failed", "to", "create", "instance">>, r.err),
                              calls |-> r.calls], <<>>)
                     ELSE Op("CreateInstance", bootstrapParams, r, <<inst>>)
  /\ UNCHANGED <<cfg, resolved, inflight, destroyed>>

\* Whether the operation's destroy call was issued and came back without error.
DestroyedNow(r) ==
  \E i \in 1..Len(r.calls) :
     r.calls[i].api = "destroyVirtualMachine" /\ r.calls[i].err.nil

DeleteInstance ==
  /\ lastOp.op = "none"
  /\ \E instance \in Identifiers, fault \in ListFaults :
    \E outcome \in OutcomesAfter(FindOneInstance("", instance, fault).err) :
    LET r == DestroyInstance(instance, fault, outcome)
    IN  /\ vms' = r.vms
        /\ destroyed' = IF DestroyedNow(r) THEN destroyed \cup {instance} ELSE destroyed
        /\ lastOp' =
             IF ~r.err.nil
             THEN Op("DeleteInstance", instance,
                     [err |-> Wrap(<<"failed", "to", "delete", "instance">>, r.err),
                      calls |-> r.calls], <<>>)
             ELSE Op("DeleteInstance", instance, r, <<>>)
        /\ UNCHANGED <<deployed, cfg, resolved, inflight, ghost>>

\* Mutant: get returns the not-found error of the lookup.
GetInstanceReportsNotFound ==
  /\ lastOp.op = "none"
  /\ \E instance \in Identifiers, fault \in ListFaults :
    LET found == FindOneInstance(controllerID, instance, fault)
        conv == CloudStackInstanceToParamsInstance(found.vm)
    IN  /\ lastOp' =
             IF ~found.err.nil
             THEN Op("GetInstance", instance,
                     [err |-> Wrap(<<"failed", "to", "get", "VM", "details">>, found.err),
                      calls |-> found.calls], <<NoInstance>>)
             ELSE IF ~conv.err.nil
             THEN Op("GetInstance", instance,
                     [err |-> Wrap(<<"failed", "to", "convert", "instance">>, conv.err),
                      calls |-> found.calls], <<NoInstance>>)
             ELSE Op("GetInstance", instance, found, <<conv.inst>>)
        /\ UNCHANGED <<vms, deployed, cfg, resolved, inflight, ghost, destroyed>>

GetInstance ==
  /\ lastOp.op = "none"
  /\ \E instance \in Identifiers, fault \in ListFaults :
    LET found == FindOneInstance(controllerID, instance, fault)
        conv == CloudStackInstanceToParamsInstance(found.vm)
    IN  /\ lastOp' =
             IF ~found.err.nil
             THEN IF ErrorsIs(found.err, "ErrNotFound")
                  THEN Op("GetInstance", instance, [err |-> Nil, calls |-> found.calls],
                          <<NoInstance>>)
                  ELSE Op("GetInstance", instance,
                          [err |-> Wrap(<<"failed", "to", "get", "VM", "details">>, found.err),
                           calls |-> found.calls], <<NoInstance>>)
             ELSE IF ~conv.err.nil
             THEN Op("GetInstance", instance,
                     [err |-> Wrap(<<"failed", "to", "convert", "instance">>, conv.err),
                      calls |-> found.calls], <<NoInstance>>)
             ELSE Op("GetInstance", instance, found, <<conv.inst>>)
        /\ UNCHANGED <<vms, deployed, cfg, resolved, inflight, ghost, destroyed>>

ListInstances ==
  /\ lastOp.op = "none"
  /\ \E poolID \in PoolIDs, fault \in ListFaults :
    LET r == ListInstancesByPool(controllerID, poolID, fault)
        conv == [i \in 1..Len(r.out) |-> CloudStackInstanceToParamsInstance(r.out[i])]
        failed == \E i \in 1..Len(conv) : ~conv[i].err.nil
        first == CHOOSE i \in 1..Len(conv) :
                   (~conv[i].err.nil) /\ \A j \in 1..(i - 1) : conv[j].err.nil
    IN  /\ lastOp' =
             IF ~r.err.nil
             THEN Op("ListInstances", poolID,
                     [err |-> Wrap(<<"failed", "to", "list", "instances">>, r.err),
                      calls |-> r.calls], <<>>)
             ELSE IF failed
             THEN Op("ListInstances", poolID,
                     [err |-> Wrap(<<"failed", "to", "convert", "instance">>, conv[first].err),
                      calls |-> r.calls], <<>>)
             ELSE Op("ListInstances", poolID, r, [i \in 1..Len(conv) |-> conv[i].inst])
        /\ UNCHANGED <<vms, deployed, cfg, resolved, inflight, ghost, destroyed>>

\* Mutant: remove-all destroys every VM the platform lists.
RemoveAllInstancesDestroys ==
  /\ lastOp.op = "none"
  /\ vms' = [i \in 1..Len(vms) |-> [vms[i] EXCEPT !.State = "Destroyed"]]
  /\ lastOp' = Op("RemoveAllInstances", "", [err |-> Nil, calls |-> <<>>], <<>>)
  /\ UNCHANGED <<deployed, cfg, resolved, inflight, ghost, destroyed>>

RemoveAllInstances ==
  /\ lastOp.op = "none"
  /\ lastOp' = Op("RemoveAllInstances", "", [err |-> Nil, calls |-> <<>>], <<>>)
  /\ UNCHANGED <<vms, deployed, cfg, resolved, inflight, ghost, destroyed>>

Stop ==
  /\ lastOp.op = "none"
  /\ \E instance \in Identifiers, force \in BOOLEAN, fault \in ListFaults :
    \E outcome \in OutcomesAfter(FindOneInstance("", instance, fault).err) :
    LET r == StopInstance(instance, force, fault, outcome)
    IN  /\ vms' = r.vms
        /\ lastOp' =
             IF ~r.err.nil
             THEN Op("Stop", instance,
                     [err |-> Wrap(<<"failed", "to", "stop", "instance">>, r.err),
                      calls |-> r.calls], <<>>)
             ELSE Op("Stop", instance, r, <<>>)
        /\ UNCHANGED <<deployed, cfg, resolved, inflight, ghost, destroyed>>

Start ==
  /\ lastOp.op = "none"
  /\ \E instance \in Identifiers, fault \in ListFaults :
    \E outcome \in OutcomesAfter(FindOneInstance("", instance, fault).err) :
    LET r == StartInstance(instance, fault, outcome)
    IN  /\ vms' = r.vms
        /\ lastOp' =
             IF ~r.err.nil
             THEN Op("Start", instance,
                     [err |-> Wrap(<<"failed", "to", "start", "instance">>, r.err),
                      calls |-> r.calls], <<>>)
             ELSE Op("Start", instance, r, <<>>)
        /\ UNCHANGED <<deployed, cfg, resolved, inflight, ghost, destroyed>>

\* --------------------------------------------------------- environment
\* VMs that other users of the platform deploy: one of another controller
\* that shares a name and a pool ID with ours, and one with our tags that
\* the platform reports, in upper case, as being expunged.
ExternalVMs ==
  {[Name |-> "n1", State |-> "Running", Projectid |-> "",
    Tags |-> [k \in {"GARM_CONTROLLER_ID", "GARM_POOL_ID"} |->
                IF k = "GARM_CONTROLLER_ID" THEN "c2" ELSE "p1"]],
   [Name |-> "n2", State |-> "EXPUNGING", Projectid |-> "",
    Tags |-> [k \in {"GARM_CONTROLLER_ID", "GARM_POOL_ID"} |->
                IF k = "GARM_CONTROLLER_ID" THEN "c1" ELSE "p1"]]}

ExternalDeploy ==
  /\ lastOp.op = "none"
  /\ deployed < MaxVMs
  /\ \E x \in ExternalVMs :
       LET vm == [Id |-> NextId, Name |-> x.Name, Displayname |-> x.Name,
                  State |-> x.State, Tags |-> x.Tags, Projectid |-> x.Projectid]
       IN  /\ vms' = Append(vms, vm)
           /\ ghost' = GhostAfter(<<vm>>, "external", FALSE, "")
  /\ deployed' = deployed + 1
  /\ lastOp' = NoOp
  /\ UNCHANGED <<cfg, resolved, inflight, destroyed>>

\* The platform expunges a destroyed VM: it first reports it as expunging,
\* then drops the record.
PlatformExpunge ==
  /\ lastOp.op = "none"
  /\ \E i \in 1..Len(vms) :
       \/ /\ ToLower(vms[i].State) = "destroyed"
          /\ vms' = [vms EXCEPT ![i].State = "Expunging"]
       \/ /\ ToLower(vms[i].State) = "expunging"
          /\ vms' = SubSeq(vms, 1, i - 1) \o SubSeq(vms, i + 1, Len(vms))
  /\ lastOp' = NoOp
  /\ UNCHANGED <<deployed, cfg, resolved, inflight, ghost, destroyed>>

\* The caller has read the result of the operation; the provider is ready
\* for the next one.
Return ==
  /\ lastOp.op # "none"
  /\ lastOp' = NoOp
  /\ UNCHANGED <<vms, deployed, cfg, resolved, inflight, ghost, destroyed>>

\* -------------------------------------------------------------- config
\* isUUID: the strings of the 8-4-4-4-12 hexadecimal form.
UUIDs == {"z1", "so1", "t1", "pj1"}
\* Mutant: no string is taken for a UUID.
isUUIDNever(s) == FALSE
isUUID(s) == s \in UUIDs

\* The resolved bundle of a Config that has not been resolved.
ZeroIDs == [ZoneID |-> "", ServiceOfferingID |-> "", TemplateID |-> "", ProjectID |-> ""]

\* Config.Validate
ConfigValidate(c) ==
  IF c.APIURL = "" THEN Errorf(<<"missing", "api_url">>)
  ELSE IF c.APIKey = "" THEN Errorf(<<"missing", "api_key">>)
  ELSE IF c.Secret = "" THEN Errorf(<<"missing", "secret">>)
  ELSE IF c.Zone = "" THEN Errorf(<<"missing", "zone">>)
  ELSE IF c.ServiceOffering = "" THEN Errorf(<<"missing", "service_offering">>)
  ELSE IF c.Template = "" THEN Errorf(<<"missing", "template">>)
  ELSE Nil

\* What the platform answers to a by-name lookup: an error, or the number of
\* matches with their IDs in the order the platform returns them.
Reply(err, ids) == [err |-> err, count |-> Len(ids), ids |-> ids]
FirstId(reply) == IF reply.count = 0 THEN "" ELSE reply.ids[1]

\* Zone.GetZoneByName / ServiceOffering.GetServiceOfferingByName of the
\* client library: the single match, or an error when nothing matches.
GetByName(name, reply) ==
  IF ~reply.err.nil THEN [Id |-> "", err |-> reply.err]
  ELSE IF reply.count = 0
  THEN [Id |-> "", err |-> Errorf(<<"No", "match", "found", "for", name>>)]
  ELSE [Id |-> reply.ids[1], err |-> Nil]

\* The steps of resolveNames; each takes the bundle resolved so far and
\* gives the bundle after the step, the step's error and its remote calls.
resolveZone(c, r, reply) ==
  IF isUUID(c.Zone)
  THEN [resolved |-> [r EXCEPT !.ZoneID = c.Zone], err |-> Nil, calls |-> <<>>]
  ELSE LET zone == GetByName(c.Zone, reply)
           call == Call("GetZoneByName", [name |-> c.Zone], zone.err, reply.count, zone.Id)
       IN  IF ~zone.err.nil
           THEN [resolved |-> r, calls |-> <<call>>,
                 err |-> Wrap(<<"failed", "to", "resolve", "zone", c.Zone>>, zone.err)]
           ELSE [resolved |-> [r EXCEPT !.ZoneID = zone.Id], err |-> Nil, calls |-> <<call>>]

resolveServiceOffering(c, r, reply) ==
  IF isUUID(c.ServiceOffering)
  THEN [resolved |-> [r EXCEPT !.ServiceOfferingID = c.ServiceOffering], err |-> Nil,
        calls |-> <<>>]
  ELSE LET so == GetByName(c.ServiceOffering, reply)
           call == Call("GetServiceOfferingByName", [name |-> c.ServiceOffering], so.err,
                        reply.count, so.Id)
       IN  IF ~so.err.nil
           THEN [resolved |-> r, calls |-> <<call>>,
                 err |-> Wrap(<<"failed", "to", "resolve", "service_offering",
                                c.ServiceOffering>>, so.err)]
           ELSE [resolved |-> [r EXCEPT !.ServiceOfferingID = so.Id], err |-> Nil,
                 calls |-> <<call>>]

\* Mutant: several projects of the name resolve to the first of them.
resolveProjectFirstMatch(c, r, reply) ==
  IF c.Project = ""
  THEN [resolved |-> r, err |-> Nil, calls |-> <<>>]
  ELSE IF isUUID(c.Project)
  THEN [resolved |-> [r EXCEPT !.ProjectID = c.Project], err |-> Nil, calls |-> <<>>]
  ELSE LET call == Call("listProjects", [name |-> c.Project, listall |-> TRUE], reply.err,
                        reply.count, FirstId(reply))
       IN  IF ~reply.err.nil
           THEN [resolved |-> r, calls |-> <<call>>,
                 err |-> Wrap(<<"failed", "to", "resolve", "project", c.Project>>, reply.err)]
           ELSE IF reply.count = 0
           THEN [resolved |-> r, calls |-> <<call>>,
                 err |-> Errorf(<<"project", c.Project, "not", "found">>)]
           ELSE [resolved |-> [r EXCEPT !.ProjectID = reply.ids[1]], err |-> Nil,
                 calls |-> <<call>>]

resolveProject(c, r, reply) ==
  IF c.Project = ""
  THEN [resolved |-> r, err |-> Nil, calls |-> <<>>]
  ELSE IF isUUID(c.Project)
  THEN [resolved |-> [r EXCEPT !.ProjectID = c.Project], err |-> Nil, calls |-> <<>>]
  ELSE LET call == Call("listProjects", [name |-> c.Project, listall |-> TRUE], reply.err,
                        reply.count, FirstId(reply))
       IN  IF ~reply.err.nil
           THEN [resolved |-> r, calls |-> <<call>>,
                 err |-> Wrap(<<"failed", "to", "resolve", "project", c.Project>>, reply.err)]
           ELSE IF reply.count = 0
           THEN [resolved |-> r, calls |-> <<call>>,
                 err |-> Errorf(<<"project", c.Project, "not", "found">>)]
           ELSE IF reply.count > 1
           THEN [resolved |-> r, calls |-> <<call>>,
                 err |-> Errorf(<<"multiple", "projects", "found", "matching", c.Project>>)]
           ELSE [resolved |-> [r EXCEPT !.ProjectID = reply.ids[1]], err |-> Nil,
                 calls |-> <<call>>]

resolveTemplate(c, r, reply) ==
  IF isUUID(c.Template)
  THEN [resolved |-> [r EXCEPT !.TemplateID = c.Template], err |-> Nil, calls |-> <<>>]
  ELSE LET p == [templatefilter |-> "executable", name |-> c.Template, zoneid |-> r.ZoneID,
                 projectid |-> IF r.ProjectID # "" THEN r.ProjectID ELSE Unset]
           call == Call("listTemplates", p, reply.err, reply.count, FirstId(reply))
       IN  IF ~reply.err.nil
           THEN [resolved |-> r, calls |-> <<call>>,
                 err |-> Wrap(<<"failed", "to", "resolve", "template", c.Template>>, reply.err)]
           ELSE IF reply.count = 0
           THEN [resolved |-> r, calls |-> <<call>>,
                 err |-> Errorf(<<"template", c.Template, "not", "found">>)]
           ELSE [resolved |-> [r EXCEPT !.TemplateID = reply.ids[1]], err |-> Nil,
                 calls |-> <<call>>]

\* Mutant: the template is resolved before the project.
resolveNamesTemplateBeforeProject(c, replies) ==
  LET z == resolveZone(c, ZeroIDs, replies.zone)
      so == resolveServiceOffering(c, z.resolved, replies.so)
      t == resolveTemplate(c, so.resolved, replies.template)
      pj == resolveProject(c, t.resolved, replies.project)
  IN  IF ~z.err.nil THEN z
      ELSE IF ~so.err.nil THEN [so EXCEPT !.calls = z.calls \o @]
      ELSE IF ~t.err.nil THEN [t EXCEPT !.calls = z.calls \o so.calls \o @]
      ELSE [pj EXCEPT !.calls = z.calls \o so.calls \o t.calls \o @]

\* Config.resolveNames on a Config whose bundle is still the zero value.
resolveNames(c, replies) ==
  LET z == resolveZone(c, ZeroIDs, replies.zone)
      so == resolveServiceOffering(c, z.resolved, replies.so)
      pj == resolveProject(c, so.resolved, replies.project)
      t == resolveTemplate(c, pj.resolved, replies.template)
  IN  IF ~z.err.nil THEN z
      ELSE IF ~so.err.nil THEN [so EXCEPT !.calls = z.calls \o @]
      ELSE IF ~pj.err.nil THEN [pj EXCEPT !.calls = z.calls \o so.calls \o @]
      ELSE [t EXCEPT !.calls = z.calls \o so.calls \o pj.calls \o @]

\* Mutant: the names are resolved before the configuration is validated.
NewConfigResolvesFirst(c, decodeErr, replies) ==
  LET verr == ConfigValidate(c)
      rn == resolveNames(c, replies)
  IN  IF ~decodeErr.nil
      THEN [nil |-> TRUE, resolved |-> ZeroIDs, calls |-> <<>>,
            err |-> Wrap(<<"error", "decoding", "config">>, decodeErr)]
      ELSE IF ~rn.err.nil
      THEN [nil |-> TRUE, resolved |-> ZeroIDs, calls |-> rn.calls,
            err |-> Wrap(<<"error", "resolving", "names">>, rn.err)]
      ELSE IF ~verr.nil
      THEN [nil |-> TRUE, resolved |-> ZeroIDs, calls |-> rn.calls,
            err |-> Wrap(<<"error", "validating", "config">>, verr)]
      ELSE [nil |-> FALSE, resolved |-> rn.resolved, calls |-> rn.calls, err |-> Nil]

\* NewConfig: c is what the file decodes to, decodeErr the failure to read
\* or decode it.
NewConfig(c, decodeErr, replies) ==
  LET verr == ConfigValidate(c)
      rn == resolveNames(c, replies)
  IN  IF ~decodeErr.nil
      THEN [nil |-> TRUE, resolved |-> ZeroIDs, calls |-> <<>>,
            err |-> Wrap(<<"error", "decoding", "config">>, decodeErr)]
      ELSE IF ~verr.nil
      THEN [nil |-> TRUE, resolved |-> ZeroIDs, calls |-> <<>>,
            err |-> Wrap(<<"error", "validating", "config">>, verr)]
      ELSE IF ~rn.err.nil
      THEN [nil |-> TRUE, resolved |-> ZeroIDs, calls |-> rn.calls,
            err |-> Wrap(<<"error", "resolving", "names">>, rn.err)]
      ELSE [nil |-> FALSE, resolved |-> rn.resolved, calls |-> rn.calls, err |-> Nil]

\* The configuration files: each field empty, a symbolic name, or a UUID.
Configs ==
  [APIURL : {"", "url"}, APIKey : {"", "key"}, Secret : {"", "secret"},
   Zone : {"", "zoneA", "z1"}, ServiceOffering : {"", "offerA", "so1"},
   Template : {"", "tmplA", "t1"}, Project : {"", "projA", "pj1"},
   SSHKeyName : {"", "k1"}, Expunge : {FALSE}]

\* What the platform can answer to the lookups of one resolution pass.
LookupReplies ==
  [zone : {Reply(Nil, <<"z2">>), Reply(Nil, <<>>), Reply(InternalErr, <<>>)},
   so : {Reply(Nil, <<"so2">>), Reply(Nil, <<>>), Reply(InternalErr, <<>>)},
   project : {Reply(Nil, <<"pj2">>), Reply(Nil, <<>>), Reply(Nil, <<"pj2", "pj3">>),
              Reply(InternalErr, <<>>)},
   template : {Reply(Nil, <<"t2">>), Reply(Nil, <<>>), Reply(Nil, <<"t3", "t2">>),
               Reply(InternalErr, <<>>)}]

\* NewCloudStackProvider: loads the configuration; the provider exists, with
\* its resolved bundle, only when NewConfig returned a Config.
NewCloudStackProvider ==
  /\ lastOp.op = "none"
  /\ \E decodeErr \in {Nil, InternalErr}, replies \in LookupReplies :
       LET r == NewConfig(cfg, decodeErr, replies)
       IN  /\ resolved' = IF r.nil THEN resolved ELSE r.resolved
           /\ lastOp' =
                IF r.nil
                THEN Op("NewCloudStackProvider", cfg,
                        [err |-> Wrap(<<"error", "loading", "config">>, r.err),
                         calls |-> r.calls], <<>>)
                ELSE Op("NewCloudStackProvider", cfg, r, <<r.resolved>>)
  /\ UNCHANGED <<vms, deployed, cfg, ghost, destroyed, inflight>>

\* The process before NewCloudStackProvider, for every configuration file.
ConfigInit ==
  /\ vms = <<>>
  /\ deployed = 0
  /\ cfg \in Configs
  /\ resolved = ZeroIDs
  /\ ghost = [id \in {} |-> NoOp]
  /\ destroyed = {}
  /\ lastOp = NoOp
  /\ inflight = <<>>

ConfigNext == NewCloudStackProvider

ConfigSpec == ConfigInit /\ [][ConfigNext]_vars

\* ------------------------------------------------- status conversion
\* Raw state strings the platform reports, in several spellings, and strings
\* that are no state the conversion knows.
RawStates ==
  {"running", "Running", "RUNNING", "starting", "Starting", "STARTING",
   "migrating", "Migrating", "MIGRATING", "restoring", "Restoring", "RESTORING",
   "stopping", "Stopping", "STOPPING", "stopped", "Stopped", "STOPPED", "sTopPed",
   "shutdown", "Shutdown", "SHUTDOWN", "destroyed", "Destroyed", "DESTROYED",
   "expunging", "Expunging", "EXPUNGING",
   "", " ", "Error", "error", "Unknown", "unknown", "Allocated", "run", "stop"}

\* VM records as a list call returns them.
ReturnedVMs ==
  [Id : {"", "u1"}, Name : {"n1"}, Displayname : {"", "n1"}, State : RawStates,
   Tags : {NoTags, [k \in {"Name", "OSType", "OSArch"} |->
                      CASE k = "Name" -> "n2" [] k = "OSType" -> "linux" [] OTHER -> "amd64"]},
   Projectid : {""}]

\* The conversion of the VM a lookup returned, as GetInstance and
\* ListInstances apply it.
ConvertInstance ==
  /\ lastOp.op = "none"
  /\ Len(vms) = 1
  /\ LET r == CloudStackInstanceToParamsInstance(vms[1])
     IN  lastOp' = Op("CloudStackInstanceToParamsInstance", vms[1].State,
                      [err |-> r.err, calls |-> <<>>], <<r.inst>>)
  /\ UNCHANGED <<vms, deployed, cfg, resolved, inflight, ghost, destroyed>>

StatusInit ==
  /\ vms \in {<<vm>> : vm \in ReturnedVMs}
  /\ deployed = 0
  /\ cfg = [APIURL |-> "url", APIKey |-> "key", Secret |-> "secret", Zone |-> "z1",
            ServiceOffering |-> "so1", Template |-> "t1", Project |-> "", SSHKeyName |-> "", Expunge |-> FALSE]
  /\ resolved = [ZoneID |-> "z1", ServiceOfferingID |-> "so1", TemplateID |-> "t1",
                 ProjectID |-> ""]
  /\ ghost = [id \in {} |-> NoOp]
  /\ destroyed = {}
  /\ lastOp = NoOp
  /\ inflight = <<>>

StatusNext == ConvertInstance

StatusSpec == StatusInit /\ [][StatusNext]_vars

\* ------------------------------------------------- runner spec inputs
ScalarOverrides == {"zone_id", "service_offering_id", "template_id", "project_id", "ssh_key_name"}

\* Override documents: each scalar override absent, empty or set; documents
\* with a property the schema does not have; and the empty document.
OverrideDocs ==
  {NoDoc}
  \cup {Doc(props) : props \in UNION {[ks -> {"", "X2"}] : ks \in SUBSET ScalarOverrides}}
  \cup {Doc([k \in {"invalid"} |-> "value"]),
        Doc([k \in {"invalid", "template_id"} |-> "X2"])}

\* The spec of a create request, built from the configuration and the request.
GetRunnerSpec ==
  /\ lastOp.op = "none"
  /\ \E name \in {"", "n1"}, doc \in OverrideDocs, toolsErr \in {Nil, InternalErr} :
       LET data == Bootstrap(name, "p1", "linux", doc)
           r == GetRunnerSpecFromBootstrapParams(data, controllerID, toolsErr)
       IN  lastOp' = Op("GetRunnerSpecFromBootstrapParams", data,
                        [err |-> r.err, calls |-> <<>>],
                        IF r.spec.nil THEN <<>> ELSE <<r.spec>>)
  /\ UNCHANGED <<vms, deployed, cfg, resolved, inflight, ghost, destroyed>>

\* Configurations with every default set or empty.
RunnerSpecInit ==
  /\ vms = <<>>
  /\ deployed = 0
  /\ resolved \in [ZoneID : {"", "z1"}, ServiceOfferingID : {"", "so1"},
                   TemplateID : {"", "T"}, ProjectID : {"", "pj1"}]
  /\ cfg \in [APIURL : {"url"}, APIKey : {"key"}, Secret : {"secret"},
              Zone : {resolved.ZoneID}, ServiceOffering : {resolved.ServiceOfferingID},
              Template : {resolved.TemplateID}, Project : {resolved.ProjectID},
              SSHKeyName : {"", "k1"}, Expunge : {FALSE}]
  /\ ghost = [id \in {} |-> NoOp]
  /\ destroyed = {}
  /\ lastOp = NoOp
  /\ inflight = <<>>

RunnerSpecNext == GetRunnerSpec

RunnerSpecSpec == RunnerSpecInit /\ [][RunnerSpecNext]_vars

\* ------------------------------------------------ concurrent operations
\* Two callers, each operating on an instance of its own: one that exists
\* and one it creates, in a pool of its own.
Procs == {1, 2}
OwnId(p) == AllIds[p]
OwnName(p) == IF p = 1 THEN "n1" ELSE "n2"
OwnPool(p) == IF p = 1 THEN "p1" ELSE "p2"
NewName(p) == IF p = 1 THEN "new1" ELSE "new2"

\* The requests a caller can make.
Requests(p) ==
  [op : {"Start", "Stop", "DeleteInstance", "GetInstance"}, arg : {OwnId(p), OwnName(p)}]
  \cup {[op |-> "ListInstances", arg |-> OwnPool(p)],
        [op |-> "CreateInstance", arg |-> NewName(p)]}

\* What the platform answers to the calls of one operation.
Answers(req) ==
  LET ok == [fault |-> Nil, outcome |-> [err |-> Nil, applied |-> TRUE], tagErr |-> Nil]
  IN  CASE req.op \in {"Start", "Stop", "DeleteInstance"} ->
             {ok, [ok EXCEPT !.fault = EntityErr],
              [ok EXCEPT !.outcome = [err |-> InternalErr, applied |-> FALSE]],
              [ok EXCEPT !.outcome = [err |-> NoMatchErr, applied |-> FALSE]]}
        [] req.op \in {"GetInstance", "ListInstances"} -> {ok, [ok EXCEPT !.fault = EntityErr]}
        [] OTHER -> {ok, [ok EXCEPT !.tagErr = InternalErr]}

\* The results of the client's methods, as one kind of record: the error,
\* the remote calls, the result and the VM list after.
Acted(r) == [err |-> r.err, calls |-> r.calls, out |-> <<>>, vms |-> r.vms]
Found(r) == [err |-> r.err, calls |-> r.calls, out |-> <<r.vm>>, vms |-> vms]
Listed(r) == [err |-> r.err, calls |-> r.calls, out |-> r.out, vms |-> vms]
Created(r) == [err |-> r.err, calls |-> r.calls, out |-> <<r.id>>, vms |-> r.vms]

\* The operation run from the present state with no other operation between
\* its calls.
Run(p, req, ans) ==
  CASE req.op = "Start" -> Acted(StartInstance(req.arg, ans.fault, ans.outcome))
    [] req.op = "Stop" -> Acted(StopInstance(req.arg, TRUE, ans.fault, ans.outcome))
    [] req.op = "DeleteInstance" -> Acted(DestroyInstance(req.arg, ans.fault, ans.outcome))
    [] req.op = "GetInstance" -> Found(FindOneInstance(controllerID, req.arg, ans.fault))
    [] req.op = "ListInstances" -> Listed(ListInstancesByPool(controllerID, req.arg, ans.fault))
    [] OTHER ->
         Created(CreateRunningInstance(
                   GetRunnerSpecFromBootstrapParams(
                     Bootstrap(req.arg, OwnPool(p), "linux", NoDoc), controllerID, Nil).spec,
                   Nil, DeployOutcomes[1], ans.tagErr))

\* The caller's own instances in a VM list, without the IDs the platform
\* gave them.
OwnVMs(p, list) ==
  {[Name |-> list[i].Name, State |-> list[i].State, Tags |-> list[i].Tags,
    Projectid |-> list[i].Projectid] :
     i \in {k \in 1..Len(list) : list[k].Name \in {OwnName(p), NewName(p)}}}

\* What a caller sees of an operation. The ID of a created VM is the
\* platform's choice, so a create is seen without it.
Seen(req, err, calls, out) ==
  IF req.op = "CreateInstance"
  THEN [err |-> err, calls |-> [i \in 1..Len(calls) |-> <<calls[i].api, calls[i].err>>],
        out |-> [i \in 1..Len(out) |-> out[i] # ""]]
  ELSE [err |-> err, calls |-> calls, out |-> out]

Idle == [pc |-> "idle"]

\* What the operation would return and leave of the caller's instances.
Alone(p, req, r) == [seen |-> Seen(req, r.err, r.calls, r.out), own |-> OwnVMs(p, r.vms)]

\* A caller invokes an operation of the provider.
Invoke(p) ==
  /\ inflight[p].pc = "idle"
  /\ \E req \in Requests(p) : \E ans \in Answers(req) :
       inflight' = [inflight EXCEPT ![p] =
                      [pc |-> "invoked", req |-> req, ans |-> ans, config |-> resolved,
                       alone |-> Alone(p, req, Run(p, req, ans))]]
  /\ UNCHANGED <<vms, deployed, cfg, resolved, ghost, destroyed, lastOp>>

\* The first remote call of an operation whose calls and results are r.
FirstCallOf(p, req, r) ==
  /\ vms' = IF req.op = "CreateInstance" /\ Len(r.calls) >= 1
            THEN PlatformDeploy(r.calls[1].params, TRUE)
            ELSE vms
  /\ deployed' = IF req.op = "CreateInstance" /\ Len(r.calls) >= 1
                 THEN deployed + 1
                 ELSE deployed
  /\ inflight' = [inflight EXCEPT ![p] =
                    [pc |-> IF Len(r.calls) = 2 THEN "second" ELSE "done",
                     req |-> req, ans |-> @.ans, config |-> @.config, alone |-> @.alone,
                     seen |-> Seen(req, r.err, r.calls, r.out),
                     next |-> IF Len(r.calls) = 2 THEN <<r.calls[2]>> ELSE <<>>]]

\* The operation issues its first remote call: the lookup, or the deploy
\* call of a create. What the operation returns is decided by the answers;
\* a second call, if one follows, is still to reach the platform.
FirstCall(p) ==
  /\ inflight[p].pc = "invoked"
  /\ FirstCallOf(p, inflight[p].req, Run(p, inflight[p].req, inflight[p].ans))
  /\ UNCHANGED <<cfg, resolved, ghost, destroyed, lastOp>>

\* The second remote call reaches the platform: the action call on the VM
\* the lookup found, or the tagging of the VM the deploy call created.
SecondCall(p) ==
  /\ inflight[p].pc = "second"
  /\ LET call == inflight[p].next[1]
     IN  vms' = IF call.api = "createTags"
                THEN IF call.err.nil
                     THEN PlatformCreateTags(vms, call.params.resourceids[1], call.params.tags)
                     ELSE vms
                ELSE PlatformApply(call.api, call.params.id, inflight[p].ans.outcome.applied)
  /\ inflight' = [inflight EXCEPT ![p].pc = "done"]
  /\ UNCHANGED <<deployed, cfg, resolved, ghost, destroyed, lastOp>>

\* The provider with two existing instances, one of each caller, tagged as
\* its create operation tags them.
ConcurrentInit ==
  /\ resolved \in [ZoneID : {"z1"}, ServiceOfferingID : {"so1"}, TemplateID : {"t1"},
                   ProjectID : {"", "pj1"}]
  /\ cfg = [APIURL |-> "url", APIKey |-> "key", Secret |-> "secret",
            Zone |-> resolved.ZoneID, ServiceOffering |-> resolved.ServiceOfferingID,
            Template |-> resolved.TemplateID, Project |-> resolved.ProjectID,
            SSHKeyName |-> "", Expunge |-> FALSE]
  /\ \E s \in [Procs -> {"Running", "Stopped"}] :
       vms = [p \in Procs |->
                [Id |-> OwnId(p), Name |-> OwnName(p), Displayname |-> OwnName(p),
                 State |-> s[p], Projectid |-> resolved.ProjectID,
                 Tags |-> [k \in {"GARM_CONTROLLER_ID", "GARM_POOL_ID"} |->
                             IF k = "GARM_CONTROLLER_ID" THEN controllerID ELSE OwnPool(p)]]]
  /\ deployed = Cardinality(Procs)
  /\ ghost = [id \in {} |-> NoOp]
  /\ destroyed = {}
  /\ lastOp = NoOp
  /\ inflight = [p \in Procs |-> Idle]

ConcurrentNext == \E p \in Procs : Invoke(p) \/ FirstCall(p) \/ SecondCall(p)

ConcurrentSpec == ConcurrentInit /\ [][ConcurrentNext]_vars

\* ------------------------------------------------------ delete, expunge
\* The provider configured with and without expunge, and two of its VMs on
\* the platform.
ExpungeInit ==
  /\ resolved \in [ZoneID : {"z1"}, ServiceOfferingID : {"so1"}, TemplateID : {"t1"},
                   ProjectID : {"", "pj1"}]
  /\ cfg \in [APIURL : {"url"}, APIKey : {"key"}, Secret : {"secret"},
              Zone : {resolved.ZoneID}, ServiceOffering : {resolved.ServiceOfferingID},
              Template : {resolved.TemplateID}, Project : {resolved.ProjectID},
              SSHKeyName : {""}, Expunge : BOOLEAN]
  /\ \E s \in [Procs -> {"Running", "Stopped"}] :
       vms = [p \in Procs |->
                [Id |-> OwnId(p), Name |-> OwnName(p), Displayname |-> OwnName(p),
                 State |-> s[p], Projectid |-> resolved.ProjectID,
                 Tags |-> [k \in {"GARM_CONTROLLER_ID", "GARM_POOL_ID"} |->
                             IF k = "GARM_CONTROLLER_ID" THEN controllerID ELSE "p1"]]]
  /\ deployed = Cardinality(Procs)
  /\ ghost = [id \in {} |-> NoOp]
  /\ destroyed = {}
  /\ lastOp = NoOp
  /\ inflight = <<>>

ExpungeNext ==
  \/ DeleteInstance
  \/ PlatformExpunge
  \/ Return

ExpungeSpec == ExpungeInit /\ [][ExpungeNext]_vars

\* ------------------------------------------------------------ user data
\* Rendered payloads: short ones, long ones, and the lengths at the limit.
Payloads ==
  {Bytes(len, text) :
     len \in {0, 1, 25, 1024, 16358, 16359, 16360, 16382, 16383, 16384, 16385, 16386, 16409,
              20000, 65536},
     text \in {<<"cloud-config", "n1">>, <<"cloud-config", "n2">>,
               <<"<powershell>", "cloud-config", "n1", "</powershell>">>}}

\* The rendered payload of a create request is compressed and encoded.
EncodeUserDataStep ==
  /\ lastOp.op = "none"
  /\ \E udata \in Payloads, osType \in {"linux", "windows", "other"} :
       lastOp' = Op("EncodeUserData", [udata |-> udata, osType |-> osType],
                    [err |-> Nil, calls |-> <<>>], <<EncodeUserData(udata, osType)>>)
  /\ UNCHANGED <<vms, deployed, cfg, resolved, inflight, ghost, destroyed>>

UserDataInit ==
  /\ vms = <<>>
  /\ deployed = 0
  /\ cfg = [APIURL |-> "url", APIKey |-> "key", Secret |-> "secret", Zone |-> "z1",
            ServiceOffering |-> "so1", Template |-> "t1", Project |-> "", SSHKeyName |-> "", Expunge |-> FALSE]
  /\ resolved = [ZoneID |-> "z1", ServiceOfferingID |-> "so1", TemplateID |-> "t1",
                 ProjectID |-> ""]
  /\ ghost = [id \in {} |-> NoOp]
  /\ destroyed = {}
  /\ lastOp = NoOp
  /\ inflight = <<>>

UserDataNext == EncodeUserDataStep \/ Return

UserDataSpec == UserDataInit /\ [][UserDataNext]_vars

\* ----------------------------------------------------------- UUID texts
\* Texts are sequences of characters.
HexDigits ==
  {"0", "1", "2", "3", "4", "5", "6", "7", "8", "9",
   "a", "b", "c", "d", "e", "f", "A", "B", "C", "D", "E", "F"}

\* uuidRegex between its anchors: runs of a character class, in order.
uuidRegex ==
  <<[class |-> HexDigits, count |-> 8], [class |-> {"-"}, count |-> 1],
    [class |-> HexDigits, count |-> 4], [class |-> {"-"}, count |-> 1],
    [class |-> HexDigits, count |-> 4], [class |-> {"-"}, count |-> 1],
    [class |-> HexDigits, count |-> 4], [class |-> {"-"}, count |-> 1],
    [class |-> HexDigits, count |-> 12]>>

\* The position after a match of the runs from run k on that starts at
\* position pos of the text, 0 when there is none.
RECURSIVE MatchFrom(_, _, _, _)
MatchFrom(re, text, pos, k) ==
  IF k > Len(re) THEN pos
  ELSE IF /\ pos + re[k].count - 1 <= Len(text)
          /\ \A i \in pos..(pos + re[k].count - 1) : text[i] \in re[k].class
       THEN MatchFrom(re, text, pos + re[k].count, k + 1)
       ELSE 0

\* Mutant: the pattern without its anchors matches anywhere in the text.
isUUIDTextUnanchored(text) ==
  \E pos \in 1..(Len(text) + 1) : MatchFrom(uuidRegex, text, pos, 1) # 0

\* isUUID on a text: the match starts at the beginning of the text (^) and
\* ends at its end ($, which without the m flag is the end of the text only).
isUUIDText(text) == MatchFrom(uuidRegex, text, 1, 1) = Len(text) + 1

\* The first UUID of TestIsUUID, d9a16f24-9e15-43a7-afd0-baa96a7e5ef3, and
\* the second, the same in upper case.
LowerUUID ==
  <<"d", "9", "a", "1", "6", "f", "2", "4", "-", "9", "e", "1", "5", "-",
    "4", "3", "a", "7", "-", "a", "f", "d", "0", "-",
    "b", "a", "a", "9", "6", "a", "7", "e", "5", "e", "f", "3">>
UpperUUID ==
  <<"D", "9", "A", "1", "6", "F", "2", "4", "-", "9", "E", "1", "5", "-",
    "4", "3", "A", "7", "-", "A", "F", "D", "0", "-",
    "B", "A", "A", "9", "6", "A", "7", "E", "5", "E", "F", "3">>

ReplaceAt(text, i, c) == [text EXCEPT ![i] = c]
RemoveAt(text, i) == SubSeq(text, 1, i - 1) \o SubSeq(text, i + 1, Len(text))
InsertAt(text, i, c) == SubSeq(text, 1, i - 1) \o <<c>> \o SubSeq(text, i, Len(text))

\* The texts isUUID is asked about: the two UUIDs, the other texts of
\* TestIsUUID, and the UUID with one character replaced, removed or added.
UUIDCandidates ==
  {LowerUUID, UpperUUID, <<>>, <<"u", "s", "-", "w", "e", "s", "t", "-", "1">>,
   <<"n", "o", "t", "-", "a", "-", "u", "u", "i", "d">>}
  \cup {ReplaceAt(LowerUUID, i, c) : i \in 1..36, c \in {"g", "-", "F", "0", " "}}
  \cup {RemoveAt(LowerUUID, i) : i \in 1..36}
  \cup {InsertAt(LowerUUID, i, c) : i \in 1..37, c \in {"a", "-", "\n", " "}}

\* isUUID is asked about one text.
IsUUIDStep ==
  /\ lastOp.op = "none"
  /\ \E text \in UUIDCandidates :
       lastOp' = Op("isUUID", text, [err |-> Nil, calls |-> <<>>], <<isUUIDText(text)>>)
  /\ UNCHANGED <<vms, deployed, cfg, resolved, inflight, ghost, destroyed>>

UUIDNext == IsUUIDStep \/ Return

UUIDSpec == UserDataInit /\ [][UUIDNext]_vars

\* ------------------------------------------------------------ NFS mounts
MaxMounts == 2

\* Mount options are comma-separated lists; the default ones, and the custom
\* ones of TestGenerateNFSMountScript.
DefaultOptions == <<"nfsvers=4", "ro", "soft", "timeo=30">>
CustomOptions == <<"nfsvers=4", "rw", "hard", "timeo=60">>

\* The mount entries of a request; Options is <<>> when none are given.
NFSMounts ==
  [Server : {"nfs.example.com"}, ServerPath : {"/exports/cache", "/exports/artifacts"},
   MountPath : {"/mnt/cache", "/mnt/artifacts"}, ReadWrite : BOOLEAN,
   Options : {<<>>, CustomOptions}]

RECURSIVE MountLists(_)
MountLists(n) ==
  IF n = 0 THEN {<<>>}
  ELSE MountLists(n - 1) \cup {Append(l, m) : l \in {k \in MountLists(n - 1) : Len(k) = n - 1},
                                              m \in NFSMounts}

\* Mutant: a read-write mount gets the read-only default options.
mountOptionsReadOnly(m) ==
  IF m.Options # <<>> THEN m.Options ELSE DefaultOptions

\* The options of one mount: its own, else the default ones, with rw in the
\* place of ro for a read-write mount.
mountOptions(m) ==
  IF m.Options # <<>> THEN m.Options
  ELSE IF m.ReadWrite
       THEN [i \in DOMAIN DefaultOptions |->
               IF DefaultOptions[i] = "ro" THEN "rw" ELSE DefaultOptions[i]]
       ELSE DefaultOptions

\* The two script lines of one mount; a line is its sequence of words.
mountLines(m) ==
  <<<<"mkdir", "-p", m.MountPath>>,
    <<"mount", "-t", "nfs", "-o", mountOptions(m),
      [server |-> m.Server, path |-> m.ServerPath], m.MountPath>>>>

RECURSIVE allMountLines(_)
allMountLines(mounts) ==
  IF mounts = <<>> THEN <<>>
  ELSE mountLines(Head(mounts)) \o allMountLines(Tail(mounts))

NilScript == [nil |-> TRUE, lines |-> <<>>]

\* RunnerSpec.generateNFSMountScript: nil without mounts, else the script
\* that installs the NFS client and mounts every entry.
generateNFSMountScript(r) ==
  IF Len(r.NFSMounts) = 0 THEN NilScript
  ELSE [nil |-> FALSE,
        lines |-> <<<<"#!/bin/bash">>,
                    <<"apt-get", "update", "&&", "apt-get", "install", "-y", "nfs-common">>>>
                  \o allMountLines(r.NFSMounts)]

\* The script of one runner spec is generated.
GenerateNFSMountScriptStep ==
  /\ lastOp.op = "none"
  /\ \E mounts \in MountLists(MaxMounts) :
       lastOp' = Op("generateNFSMountScript", mounts, [err |-> Nil, calls |-> <<>>],
                    <<generateNFSMountScript([NFSMounts |-> mounts])>>)
  /\ UNCHANGED <<vms, deployed, cfg, resolved, inflight, ghost, destroyed>>

NFSNext == GenerateNFSMountScriptStep \/ Return

NFSSpec == UserDataInit /\ [][NFSNext]_vars

\* ------------------------------------------------------------------ get
\* VM records as the platform lists them to a get: of this controller and
\* of another, and records that come without an ID.
ListedVMs ==
  [Id : {"", "u1", "u2"}, Name : {"n1"}, Displayname : {"n1"},
   State : {"Running", "Destroyed"},
   Tags : {[k \in {"GARM_CONTROLLER_ID", "GARM_POOL_ID"} |->
              IF k = "GARM_CONTROLLER_ID" THEN "c1" ELSE "p1"],
           [k \in {"GARM_CONTROLLER_ID", "GARM_POOL_ID"} |->
              IF k = "GARM_CONTROLLER_ID" THEN "c2" ELSE "p1"]},
   Projectid : {""}]

GetInit ==
  /\ vms \in {<<>>} \cup {<<vm>> : vm \in ListedVMs}
               \cup {l \in {<<v, w>> : v \in ListedVMs, w \in ListedVMs} : l[1].Id # l[2].Id}
  /\ deployed = MaxVMs
  /\ cfg = [APIURL |-> "url", APIKey |-> "key", Secret |-> "secret", Zone |-> "z1",
            ServiceOffering |-> "so1", Template |-> "t1", Project |-> "", SSHKeyName |-> "", Expunge |-> FALSE]
  /\ resolved = [ZoneID |-> "z1", ServiceOfferingID |-> "so1", TemplateID |-> "t1",
                 ProjectID |-> ""]
  /\ ghost = [id \in {} |-> NoOp]
  /\ destroyed = {}
  /\ lastOp = NoOp
  /\ inflight = <<>>

GetNext == GetInstance \/ Return

GetSpec == GetInit /\ [][GetNext]_vars

\* ------------------------------------------------------- specification
\* The provider after NewCloudStackProvider: the identifier bundle is
\* resolved, with or without a project, and the platform holds no VM yet.
Init ==
  /\ vms = <<>>
  /\ deployed = 0
  /\ resolved \in [ZoneID : {"z1"}, ServiceOfferingID : {"so1"}, TemplateID : {"t1"},
                   ProjectID : {"", "pj1"}]
  /\ cfg = [APIURL |-> "url", APIKey |-> "key", Secret |-> "secret",
            Zone |-> resolved.ZoneID, ServiceOffering |-> resolved.ServiceOfferingID,
            Template |-> resolved.TemplateID, Project |-> resolved.ProjectID,
            SSHKeyName |-> "", Expunge |-> FALSE]
  /\ ghost = [id \in {} |-> NoOp]
  /\ destroyed = {}
  /\ lastOp = NoOp
  /\ inflight = <<>>

Next ==
  \/ CreateInstance
  \/ DeleteInstance
  \/ GetInstance
  \/ ListInstances
  \/ RemoveAllInstances
  \/ Stop
  \/ Start
  \/ ExternalDeploy
  \/ PlatformExpunge
  \/ Return

Spec == Init /\ [][Next]_vars


\* ---------------------------------------------------------- properties
\* What the properties read off the platform and off the operation record.

\* The VM is in the project the provider is configured for.
InProject(vm) == vm.Projectid = resolved.ProjectID

HasTag(vm, k, v) == k \in DOMAIN vm.Tags /\ vm.Tags[k] = v

\* The VMs a lookup of `identifier` matches: by ID for an opaque ID, else by
\* name; with the controller tag when `ctrl` is not empty and the lookup is
\* by name.
Matching(identifier, ctrl) ==
  {i \in 1..Len(vms) :
     /\ InProject(vms[i])
     /\ IF IsID(identifier)
        THEN vms[i].Id = identifier
        ELSE vms[i].Name = identifier
             /\ (ctrl = "" \/ HasTag(vms[i], "GARM_CONTROLLER_ID", ctrl))}

\* The operation issued its lookup and the platform answered it.
LookupOk(op) ==
  Len(op.calls) >= 1 /\ op.calls[1].api = "listVirtualMachines" /\ op.calls[1].err.nil

\* The start, stop and destroy calls the operation issued.
ActionCalls(op) ==
  {i \in 1..Len(op.calls) :
     op.calls[i].api \in {"startVirtualMachine", "stopVirtualMachine", "destroyVirtualMachine"}}

AllCallsOk(op) == \A i \in 1..Len(op.calls) : op.calls[i].err.nil

Gone(vm) ==
  vm.State \in {"Destroyed", "destroyed", "DESTROYED", "Expunging", "expunging", "EXPUNGING"}

\* C1: stop and destroy of an identifier that the lookup finds no VM for
\* return no error and issue no stop or destroy call.
C1_NotFoundIsSuccess ==
  (/\ lastOp.op \in {"Stop", "DeleteInstance"}
   /\ LookupOk(lastOp)
   /\ Matching(lastOp.arg, "") = {})
  => (lastOp.err.nil /\ ActionCalls(lastOp) = {})

C1_Witness ==
  /\ lastOp.op = "DeleteInstance"
  /\ LookupOk(lastOp)
  /\ vms # <<>>
  /\ Matching(lastOp.arg, "") = {}
  /\ lastOp.err.nil

\* C2: start, stop and destroy of a name that matches more than one VM
\* return the ambiguity error and issue no action call.
C2_AmbiguousNameNoAction ==
  (/\ lastOp.op \in {"DeleteInstance", "Stop", "Start"}
   /\ LookupOk(lastOp)
   /\ ~IsID(lastOp.arg)
   /\ Cardinality(Matching(lastOp.arg, "")) > 1)
  => (/\ ~lastOp.err.nil
      /\ Contains(lastOp.err.text, <<"found", "more", "than", "one", "instance">>)
      /\ ActionCalls(lastOp) = {})

C2_Witness ==
  /\ lastOp.op = "DeleteInstance"
  /\ LookupOk(lastOp)
  /\ ~IsID(lastOp.arg)
  /\ Cardinality(Matching(lastOp.arg, "")) > 1
  /\ ~lastOp.err.nil

\* C3 as claimed: a stop or destroy of an identifier that an earlier destroy
\* destroyed returns success whenever no remote call of it fails.
C3_RepeatAlwaysSucceeds ==
  (/\ lastOp.op \in {"DeleteInstance", "Stop"}
   /\ lastOp.arg \in destroyed
   /\ AllCallsOk(lastOp))
  => lastOp.err.nil

\* C3 as amended: a stop or destroy of an identifier that an earlier destroy
\* destroyed returns success when the lookup finds no VM (no action call)
\* and, when it finds exactly one, iff the action call succeeds or fails
\* with a recognised not-found error; a name that has come to match more
\* than one VM returns an error and no action call is issued.
C3_RepeatDestroy ==
  (/\ lastOp.op \in {"DeleteInstance", "Stop"}
   /\ lastOp.arg \in destroyed
   /\ LookupOk(lastOp))
  => LET m == Matching(lastOp.arg, "")
     IN  /\ m = {} => (lastOp.err.nil /\ ActionCalls(lastOp) = {})
         /\ Cardinality(m) = 1 =>
              /\ Len(lastOp.calls) = 2
              /\ lastOp.err.nil <=> lastOp.calls[2].err \in {Nil, NoMatchErr, EntityErr}
         /\ Cardinality(m) > 1 => (~lastOp.err.nil /\ ActionCalls(lastOp) = {})

\* A destroy repeated on a VM that the platform still returns, as expunging.
C3_Witness ==
  /\ lastOp.op = "DeleteInstance"
  /\ lastOp.arg \in destroyed
  /\ LookupOk(lastOp)
  /\ \E i \in Matching(lastOp.arg, "") : vms[i].State = "Expunging"
  /\ Len(lastOp.calls) = 2
  /\ lastOp.err.nil

\* C4: when the stop or destroy call fails, the operation succeeds iff the
\* error is a not-found one: its text has, in any case, the words "no match
\* found for" or "entity does not exist" and it is not the async timeout.
C4_ActionErrorAbsorbedIffNotFound ==
  (/\ lastOp.op \in {"Stop", "DeleteInstance"}
   /\ Len(lastOp.calls) = 2
   /\ ~lastOp.calls[2].err.nil)
  => /\ lastOp.err.nil <=> lastOp.calls[2].err \in {NoMatchErr, EntityErr}
     /\ lastOp.calls[2].err \in {InternalErr, AsyncTimeoutErr, TimeoutEntityErr}
          => /\ ~lastOp.err.nil
             /\ lastOp.err.is = lastOp.calls[2].err.is
             /\ Contains(lastOp.err.text, lastOp.calls[2].err.text)

C4_Witness ==
  /\ lastOp.op = "DeleteInstance"
  /\ Len(lastOp.calls) = 2
  /\ lastOp.calls[2].err = EntityErr
  /\ lastOp.err.nil

\* C5: start returns every lookup error, the not-found one included, without
\* issuing a start call, and returns every error of the start call.
C5_StartPropagates ==
  lastOp.op = "Start" =>
    /\ Len(lastOp.calls) < 2 => (~lastOp.err.nil /\ ActionCalls(lastOp) = {})
    /\ (LookupOk(lastOp) /\ Matching(lastOp.arg, "") = {}) =>
         (ErrorsIs(lastOp.err, "ErrNotFound") /\ ActionCalls(lastOp) = {})
    /\ (Len(lastOp.calls) = 2 /\ ~lastOp.calls[2].err.nil) =>
         (~lastOp.err.nil /\ Contains(lastOp.err.text, lastOp.calls[2].err.text))

C5_Witness ==
  /\ lastOp.op = "Start"
  /\ Len(lastOp.calls) = 2
  /\ lastOp.calls[2].err = NoMatchErr
  /\ ~lastOp.err.nil


\* C6 as claimed: every VM that a create operation deployed (its deploy call
\* returned the VM's ID) carries the controller-ID and the pool-ID tag once
\* the operation has returned.
C6_CreatedVMsTagged ==
  \A i \in 1..Len(vms) :
     ghost[vms[i].Id].by = "CreateRunningInstance" =>
       /\ HasTag(vms[i], "GARM_CONTROLLER_ID", controllerID)
       /\ HasTag(vms[i], "GARM_POOL_ID", ghost[vms[i].Id].pool)

\* C7: create returns an ID without error only after a deploy call that
\* returned a non-empty ID and a tagging call that succeeded; no deploy call
\* follows a failed composition, no tagging call a failed deploy or an empty
\* ID, and a failed tagging call fails the operation. Deploy precedes tag.
C7_CreateCallOrder ==
  lastOp.op = "CreateInstance" =>
    LET c == lastOp.calls
    IN  /\ Len(c) <= 2
        /\ Len(c) >= 1 => c[1].api = "deployVirtualMachine"
        /\ Len(c) = 2 =>
             /\ c[2].api = "createTags"
             /\ c[1].err.nil /\ c[1].id # ""
             /\ c[2].params.resourceids = <<c[1].id>>
        /\ lastOp.err.nil =>
             /\ Len(c) = 2 /\ c[2].err.nil
             /\ Len(lastOp.out) = 1 /\ lastOp.out[1].ProviderID = c[1].id
        /\ lastOp.arg.OSType \notin {"linux", "windows"} => (Len(c) = 0 /\ ~lastOp.err.nil)
        /\ Len(c) = 0 => ~lastOp.err.nil
        /\ Len(c) = 1 => (~lastOp.err.nil /\ (~c[1].err.nil \/ c[1].id = ""))
        /\ (Len(c) = 2 /\ ~c[2].err.nil) => ~lastOp.err.nil

C7_Witness ==
  /\ lastOp.op = "CreateInstance"
  /\ lastOp.err.nil
  /\ Len(lastOp.calls) = 2
  /\ lastOp.out[1].ProviderID # ""

\* C8 as claimed: a VM that a create operation returned for pool P is in the
\* result of every later list of P that succeeds, until the VM is destroyed
\* or expunged.
C8_CreatedThenListed ==
  (lastOp.op = "ListInstances" /\ lastOp.err.nil) =>
    \A i \in 1..Len(vms) :
       (/\ ghost[vms[i].Id].returned
        /\ ghost[vms[i].Id].pool = lastOp.arg
        /\ ~Gone(vms[i]))
       => \E j \in 1..Len(lastOp.out) : lastOp.out[j].ProviderID = vms[i].Id

\* C9: a list of pool P returns exactly the VMs of the configured project
\* that carry our controller ID and P as tags and that are not destroyed
\* or expunging, whatever the case of the state; each once.
C9_ListExactlyPool ==
  (lastOp.op = "ListInstances" /\ lastOp.err.nil) =>
    LET want == {i \in 1..Len(vms) :
                   /\ HasTag(vms[i], "GARM_CONTROLLER_ID", controllerID)
                   /\ HasTag(vms[i], "GARM_POOL_ID", lastOp.arg)
                   /\ InProject(vms[i])
                   /\ ~Gone(vms[i])}
    IN  /\ {lastOp.out[j].ProviderID : j \in 1..Len(lastOp.out)} = {vms[i].Id : i \in want}
        /\ Len(lastOp.out) = Cardinality(want)

\* A list that returns a VM and leaves out one with both tags that is gone.
C9_Witness ==
  /\ lastOp.op = "ListInstances"
  /\ lastOp.err.nil
  /\ Len(lastOp.out) >= 1
  /\ \E i \in 1..Len(vms) :
       /\ HasTag(vms[i], "GARM_CONTROLLER_ID", controllerID)
       /\ HasTag(vms[i], "GARM_POOL_ID", lastOp.arg)
       /\ InProject(vms[i])
       /\ Gone(vms[i])

\* C10: the lookup goes by ID for an opaque ID and by name otherwise, with
\* the controller tag filter iff a controller ID is supplied (get supplies
\* it; start, stop and destroy do not); no match is the not-found error,
\* several matches of a name the ambiguity error, one match that VM.
C10_FindOne ==
  (lastOp.op \in {"GetInstance", "Start", "Stop", "DeleteInstance"} /\ Len(lastOp.calls) >= 1) =>
    LET ctrl == IF lastOp.op = "GetInstance" THEN controllerID ELSE ""
        id == lastOp.arg
        c == lastOp.calls
        p == c[1].params
        m == Matching(id, ctrl)
        the == CHOOSE i \in m : TRUE
    IN  /\ c[1].api = "listVirtualMachines"
        /\ IF IsID(id)
           THEN p.id = id /\ p.name = Unset /\ DOMAIN p.tags = {}
           ELSE /\ p.id = Unset /\ p.name = id
                /\ IF ctrl # ""
                   THEN p.tags = [k \in {"GARM_CONTROLLER_ID"} |-> ctrl]
                   ELSE DOMAIN p.tags = {}
        /\ p.projectid = (IF resolved.ProjectID # "" THEN resolved.ProjectID ELSE Unset)
        /\ LookupOk(lastOp) =>
             /\ c[1].count = Cardinality(m)
             /\ m = {} =>
                  /\ Len(c) = 1
                  /\ lastOp.op = "Start" => ErrorsIs(lastOp.err, "ErrNotFound")
                  /\ lastOp.op = "GetInstance" => (lastOp.err.nil /\ lastOp.out = <<NoInstance>>)
                  /\ lastOp.op \in {"Stop", "DeleteInstance"} => lastOp.err.nil
             /\ Cardinality(m) > 1 =>
                  /\ Len(c) = 1
                  /\ ~lastOp.err.nil
                  /\ ~ErrorsIs(lastOp.err, "ErrNotFound")
                  /\ Contains(lastOp.err.text,
                              <<"found", "more", "than", "one", "instance", "with", "name", id>>)
             /\ Cardinality(m) = 1 =>
                  IF lastOp.op = "GetInstance"
                  THEN lastOp.err.nil /\ lastOp.out[1].ProviderID = vms[the].Id
                  ELSE Len(c) = 2 /\ c[2].params.id = vms[the].Id

\* A get by a name that two VMs share and of which one is our controller's.
C10_Witness ==
  /\ lastOp.op = "GetInstance"
  /\ ~IsID(lastOp.arg)
  /\ LookupOk(lastOp)
  /\ Cardinality(Matching(lastOp.arg, controllerID)) = 1
  /\ Cardinality(Matching(lastOp.arg, "")) = 2
  /\ lastOp.err.nil
  /\ lastOp.out[1].ProviderID # ""


\* The spellings of the raw states that count as running and as stopped.
C11_RunningSpellings ==
  {"running", "Running", "RUNNING", "starting", "Starting", "STARTING",
   "migrating", "Migrating", "MIGRATING", "restoring", "Restoring", "RESTORING",
   "stopping", "Stopping", "STOPPING"}
C11_StoppedSpellings ==
  {"stopped", "Stopped", "STOPPED", "sTopPed", "shutdown", "Shutdown", "SHUTDOWN",
   "destroyed", "Destroyed", "DESTROYED", "expunging", "Expunging", "EXPUNGING"}

\* C11: the canonical status is a total function of the raw state string,
\* compared without regard to case: running, starting, migrating, restoring
\* and stopping give Running; stopped, shutdown, destroyed and expunging give
\* Stopped; every other string, the empty one included, gives Unknown.
C11_StatusOfRawState ==
  (lastOp.op = "CloudStackInstanceToParamsInstance" /\ vms[1].Id # "")
    => /\ lastOp.err.nil
       /\ lastOp.out[1].Status =
            (IF vms[1].State \in C11_RunningSpellings THEN "running"
             ELSE IF vms[1].State \in C11_StoppedSpellings THEN "stopped"
             ELSE "unknown")

C11_Witness ==
  /\ lastOp.op = "CloudStackInstanceToParamsInstance"
  /\ vms[1].State = "EXPUNGING"
  /\ vms[1].Id # ""
  /\ lastOp.out[1].Status = "stopped"


\* The configured default of a scalar override, its field in the built spec,
\* and the value of the override in the request's document.
C12_Default(k) ==
  CASE k = "zone_id" -> resolved.ZoneID
    [] k = "service_offering_id" -> resolved.ServiceOfferingID
    [] k = "template_id" -> resolved.TemplateID
    [] k = "project_id" -> resolved.ProjectID
    [] OTHER -> cfg.SSHKeyName
C12_Field(r, k) ==
  CASE k = "zone_id" -> r.ZoneID
    [] k = "service_offering_id" -> r.ServiceOfferingID
    [] k = "template_id" -> r.TemplateID
    [] k = "project_id" -> r.ProjectID
    [] OTHER -> r.SSHKeyName
C12_PresentNonEmpty(doc, k) == k \in DOMAIN doc.props /\ doc.props[k] # ""
C12_Effective(doc, k) ==
  IF C12_PresentNonEmpty(doc, k) THEN doc.props[k] ELSE C12_Default(k)

\* C12: for each scalar override (zone_id, service_offering_id, template_id,
\* project_id, ssh_key_name) the built spec has the override's value iff the
\* override is present and non-empty; an absent override and a present but
\* empty one both leave the configured default.
C12_MergeTriState ==
  (lastOp.op = "GetRunnerSpecFromBootstrapParams" /\ lastOp.err.nil)
    => \A k \in ScalarOverrides :
         C12_Field(lastOp.out[1], k) = C12_Effective(lastOp.arg.ExtraSpecs, k)

C12_Witness ==
  /\ lastOp.op = "GetRunnerSpecFromBootstrapParams"
  /\ lastOp.err.nil
  /\ resolved.TemplateID = "T"
  /\ "template_id" \in DOMAIN lastOp.arg.ExtraSpecs.props
  /\ lastOp.arg.ExtraSpecs.props["template_id"] = ""
  /\ lastOp.out[1].TemplateID = "T"
  /\ "zone_id" \in DOMAIN lastOp.arg.ExtraSpecs.props
  /\ lastOp.out[1].ZoneID = "X2"
  /\ cfg.SSHKeyName = "k1"
  /\ "ssh_key_name" \notin DOMAIN lastOp.arg.ExtraSpecs.props
  /\ lastOp.out[1].SSHKeyName = "k1"


\* The text of the validation error for the first missing field of the spec
\* that the request's overrides and the defaults give; empty if none is missing.
C13_FirstMissing(data) ==
  IF C12_Effective(data.ExtraSpecs, "zone_id") = "" THEN <<"missing", "zone_id">>
  ELSE IF C12_Effective(data.ExtraSpecs, "service_offering_id") = ""
  THEN <<"missing", "service_offering_id">>
  ELSE IF C12_Effective(data.ExtraSpecs, "template_id") = "" THEN <<"missing", "template_id">>
  ELSE IF data.Name = "" THEN <<"missing", "bootstrap", "params">>
  ELSE <<>>

\* The tools were found and the override document passed the schema.
C13_ReachedValidate ==
  /\ lastOp.op = "GetRunnerSpecFromBootstrapParams"
  /\ ~Contains(lastOp.err.text, <<"failed", "to", "get", "tools">>)
  /\ DOMAIN lastOp.arg.ExtraSpecs.props \subseteq ScalarOverrides

\* C13: RunnerSpec.Validate succeeds iff zone ID, service offering ID,
\* template ID and bootstrap name are all non-empty; otherwise it returns the
\* error of the first missing field in the order zone_id, service_offering_id,
\* template_id, bootstrap params, and GetRunnerSpecFromBootstrapParams then
\* returns no spec.
C13_ValidateFirstMissing ==
  C13_ReachedValidate
    => IF C13_FirstMissing(lastOp.arg) = <<>>
       THEN lastOp.err.nil /\ Len(lastOp.out) = 1
       ELSE /\ ~lastOp.err.nil
            /\ lastOp.err.text =
                 <<"error", "validating", "spec">> \o C13_FirstMissing(lastOp.arg)
            /\ lastOp.out = <<>>

C13_Witness ==
  /\ C13_ReachedValidate
  /\ resolved.ZoneID = "z1"
  /\ resolved.ServiceOfferingID = ""
  /\ resolved.TemplateID = ""
  /\ lastOp.arg.Name = ""
  /\ lastOp.err.text = <<"error", "validating", "spec", "missing", "service_offering_id">>
  /\ lastOp.out = <<>>


\* C14: an empty override document yields an overlay with every override
\* absent and no error (the deploy call carries the configured defaults); a
\* non-empty document is schema-validated before it is deserialized, and a
\* document with a property outside the schema is rejected with a "failed to
\* validate extra specs" error, so that no spec is built and no deploy call
\* follows.
C14_OverrideDocument ==
  (lastOp.op = "CreateInstance"
     /\ ~Contains(lastOp.err.text, <<"failed", "to", "get", "tools">>))
    => LET doc == lastOp.arg.ExtraSpecs
       IN  /\ ~(DOMAIN doc.props \subseteq SchemaProperties)
                => /\ ~lastOp.err.nil
                   /\ Contains(lastOp.err.text,
                               <<"failed", "to", "validate", "extra", "specs">>)
                   /\ lastOp.calls = <<>>
                   /\ lastOp.out = <<>>
           /\ doc.empty
                => /\ ~Contains(lastOp.err.text, <<"extra", "specs">>)
                   /\ lastOp.calls # <<>>
                        => /\ lastOp.calls[1].api = "deployVirtualMachine"
                           /\ lastOp.calls[1].params.zoneid = resolved.ZoneID
                           /\ lastOp.calls[1].params.serviceofferingid = resolved.ServiceOfferingID
                           /\ lastOp.calls[1].params.templateid = resolved.TemplateID
                           /\ lastOp.calls[1].params.projectid = resolved.ProjectID
                           /\ lastOp.calls[1].params.keypair =
                                (IF cfg.SSHKeyName # "" THEN cfg.SSHKeyName ELSE Unset)

C14_Witness ==
  /\ lastOp.op = "CreateInstance"
  /\ "invalid" \in DOMAIN lastOp.arg.ExtraSpecs.props
  /\ "project_id" \in DOMAIN lastOp.arg.ExtraSpecs.props
  /\ Contains(lastOp.err.text, <<"failed", "to", "validate", "extra", "specs">>)
  /\ lastOp.calls = <<>>
  /\ vms # <<>>


\* The text Config.Validate gives for the first empty required field of the
\* configuration; empty when none of the six is empty.
C15_FirstEmpty(c) ==
  IF c.APIURL = "" THEN <<"missing", "api_url">>
  ELSE IF c.APIKey = "" THEN <<"missing", "api_key">>
  ELSE IF c.Secret = "" THEN <<"missing", "secret">>
  ELSE IF c.Zone = "" THEN <<"missing", "zone">>
  ELSE IF c.ServiceOffering = "" THEN <<"missing", "service_offering">>
  ELSE IF c.Template = "" THEN <<"missing", "template">>
  ELSE <<>>

\* The configuration file was read and decoded.
C15_Decoded ==
  /\ lastOp.op = "NewCloudStackProvider"
  /\ ~Contains(lastOp.err.text, <<"error", "decoding", "config">>)

\* C15: Config.Validate fails with the error naming the first empty field in
\* the order api_url, api_key, secret, zone, service_offering, template, and
\* succeeds whenever all six are non-empty, whatever project and ssh_key_name
\* are; NewConfig validates before it resolves names, so a configuration that
\* fails validation causes no remote lookup and yields no config.
C15_ConfigValidate ==
  C15_Decoded
    => IF C15_FirstEmpty(cfg) # <<>>
       THEN /\ lastOp.err.text =
                 <<"error", "loading", "config", "error", "validating", "config">>
                   \o C15_FirstEmpty(cfg)
            /\ lastOp.calls = <<>>
            /\ lastOp.out = <<>>
            /\ resolved = ZeroIDs
       ELSE ~Contains(lastOp.err.text, <<"error", "validating", "config">>)

C15_Witness ==
  /\ C15_Decoded
  /\ cfg.APIURL # "" /\ cfg.APIKey # "" /\ cfg.Secret # ""
  /\ cfg.Zone = "zoneA"
  /\ cfg.ServiceOffering = ""
  /\ cfg.Template = ""
  /\ lastOp.err.text = <<"error", "loading", "config", "error", "validating", "config",
                         "missing", "service_offering">>
  /\ lastOp.calls = <<>>


\* C16: if zone, service_offering, template and project of the configuration
\* are all UUIDs already, resolveNames performs no remote lookup and the
\* resolved zone, offering, template and project IDs are the configured
\* values verbatim.
C16_AllUUIDsNoLookup ==
  (C15_Decoded /\ C15_FirstEmpty(cfg) = <<>>
     /\ cfg.Zone = "z1" /\ cfg.ServiceOffering = "so1" /\ cfg.Template = "t1"
     /\ cfg.Project = "pj1")
    => /\ lastOp.err.nil
       /\ lastOp.calls = <<>>
       /\ lastOp.out = <<[ZoneID |-> cfg.Zone, ServiceOfferingID |-> cfg.ServiceOffering,
                          TemplateID |-> cfg.Template, ProjectID |-> cfg.Project]>>
       /\ resolved = lastOp.out[1]

C16_Witness ==
  /\ C15_Decoded
  /\ cfg.Zone = "z1" /\ cfg.ServiceOffering = "so1" /\ cfg.Template = "t1"
  /\ cfg.Project = "pj1"
  /\ lastOp.err.nil
  /\ lastOp.calls = <<>>
  /\ resolved = [ZoneID |-> "z1", ServiceOfferingID |-> "so1", TemplateID |-> "t1",
                 ProjectID |-> "pj1"]

\* The place of a lookup in the resolution order, the field it resolves and
\* the configured value it looks up.
C17_Rank(api) ==
  CASE api = "GetZoneByName" -> 1
    [] api = "GetServiceOfferingByName" -> 2
    [] api = "listProjects" -> 3
    [] OTHER -> 4
C17_Names(call) ==
  CASE call.api = "GetZoneByName" -> {<<"zone", cfg.Zone>>}
    [] call.api = "GetServiceOfferingByName" -> {<<"service_offering", cfg.ServiceOffering>>}
    [] call.api = "listProjects" -> {<<"project", cfg.Project>>, <<"matching", cfg.Project>>}
    [] OTHER -> {<<"template", cfg.Template>>}
\* The lookup resolved its field.
C17_Resolved(call) ==
  /\ call.err.nil
  /\ call.count >= 1
  /\ call.api = "listProjects" => call.count = 1
\* The ID a field has after its step: the configured UUID or the looked-up ID.
C17_IdOf(api, configured) ==
  IF \E i \in 1..Len(lastOp.calls) : lastOp.calls[i].api = api
  THEN (CHOOSE c \in {lastOp.calls[i] : i \in 1..Len(lastOp.calls)} : c.api = api).id
  ELSE configured

\* C17: resolveNames resolves in the order zone, service offering, project,
\* template; the template lookup by name is scoped by the zone ID resolved
\* before and, when non-empty, by the project ID; the first failing
\* resolution aborts the remaining steps with an error naming the field and
\* the attempted value, and NewConfig then returns no config.
C17_ResolutionOrder ==
  lastOp.op = "NewCloudStackProvider"
    => LET calls == lastOp.calls
       IN  /\ \A i, j \in 1..Len(calls) :
                 i < j => C17_Rank(calls[i].api) < C17_Rank(calls[j].api)
           /\ \A i \in 1..Len(calls) : i < Len(calls) => C17_Resolved(calls[i])
           /\ \A i \in 1..Len(calls) :
                 calls[i].api = "listTemplates"
                   => /\ calls[i].params.name = cfg.Template
                      /\ calls[i].params.zoneid = C17_IdOf("GetZoneByName", cfg.Zone)
                      /\ calls[i].params.projectid =
                           (IF cfg.Project = "" THEN Unset
                            ELSE C17_IdOf("listProjects", cfg.Project))
           /\ (calls # <<>> /\ ~C17_Resolved(calls[Len(calls)]))
                 => /\ ~lastOp.err.nil
                    /\ \E n \in C17_Names(calls[Len(calls)]) : Contains(lastOp.err.text, n)
                    /\ lastOp.out = <<>>
                    /\ resolved = ZeroIDs
           /\ (C15_Decoded /\ C15_FirstEmpty(cfg) = <<>>
                 /\ (calls = <<>> \/ C17_Resolved(calls[Len(calls)])))
                 => /\ lastOp.err.nil
                    /\ Len(calls) = Cardinality({f \in {"Zone", "ServiceOffering", "Template",
                                                        "Project"} :
                                                   cfg[f] \notin {"", "z1", "so1", "t1", "pj1"}})

C17_Witness ==
  /\ lastOp.op = "NewCloudStackProvider"
  /\ Len(lastOp.calls) = 4
  /\ lastOp.calls[3].api = "listProjects"
  /\ lastOp.calls[4].api = "listTemplates"
  /\ lastOp.calls[4].params.zoneid = "z2"
  /\ lastOp.calls[4].params.projectid = "pj2"
  /\ ~lastOp.calls[4].err.nil
  /\ Contains(lastOp.err.text, <<"failed", "to", "resolve", "template", "tmplA">>)
  /\ lastOp.out = <<>>

\* C18: by-name resolution and the number of matches: no match fails with a
\* not-found error for every kind; more than one match of a project name
\* fails with an ambiguity error; more than one match of a template name
\* succeeds and takes the first result in the order the platform returned.
C18_MatchCounts ==
  lastOp.op = "NewCloudStackProvider"
    => \A i \in 1..Len(lastOp.calls) :
         LET call == lastOp.calls[i]
         IN  /\ (call.count = 0 /\ call.api \in {"GetZoneByName", "GetServiceOfferingByName"}
                   /\ Contains(call.err.text, <<"No", "match", "found">>))
                  => /\ i = Len(lastOp.calls)
                     /\ Contains(lastOp.err.text, <<"No", "match", "found">>)
                     /\ lastOp.out = <<>>
             /\ (call.count = 0 /\ call.err.nil)
                  => /\ i = Len(lastOp.calls)
                     /\ Contains(lastOp.err.text, <<"not", "found">>)
                     /\ lastOp.out = <<>>
             /\ (call.count > 1 /\ call.api = "listProjects")
                  => /\ i = Len(lastOp.calls)
                     /\ Contains(lastOp.err.text, <<"multiple", "projects", "found">>)
                     /\ lastOp.out = <<>>
             /\ (call.count > 1 /\ call.api = "listTemplates")
                  => /\ lastOp.err.nil
                     /\ lastOp.out[1].TemplateID = "t3"
                     /\ resolved.TemplateID = "t3"

C18_Witness ==
  /\ lastOp.op = "NewCloudStackProvider"
  /\ Len(lastOp.calls) = 4
  /\ lastOp.calls[3].count = 1
  /\ lastOp.calls[4].api = "listTemplates"
  /\ lastOp.calls[4].count = 2
  /\ resolved.TemplateID = "t3"
  /\ resolved.ProjectID = "pj2"


\* How many calls of the API the operation issued.
C20_Count(op, api) == Cardinality({i \in 1..Len(op.calls) : op.calls[i].api = api})
\* The APIs the operation called.
C20_Apis(op) == {op.calls[i].api : i \in 1..Len(op.calls)}
\* Create, start, stop and destroy issue each of their calls at most once,
\* and list issues its list call exactly once.
C20_AtMostOnceEach ==
  /\ lastOp.op = "CreateInstance"
       => /\ C20_Apis(lastOp) \subseteq {"deployVirtualMachine", "createTags"}
          /\ C20_Count(lastOp, "deployVirtualMachine") <= 1
          /\ C20_Count(lastOp, "createTags") <= 1
  /\ lastOp.op \in {"Start", "Stop", "DeleteInstance"}
       => /\ C20_Count(lastOp, "listVirtualMachines") <= 1
          /\ Cardinality(ActionCalls(lastOp)) <= 1
          /\ Len(lastOp.calls) <= 2
  /\ lastOp.op = "ListInstances"
       => /\ Len(lastOp.calls) = 1
          /\ lastOp.calls[1].api = "listVirtualMachines"
  /\ lastOp.op \in {"CreateInstance", "Start", "Stop", "DeleteInstance", "GetInstance",
                    "ListInstances"}
       => \A i \in 1..Len(lastOp.calls) : ~lastOp.calls[i].err.nil => i = Len(lastOp.calls)

\* C20 as stated: within one operation each remote call is issued at most
\* once: create issues at most one deploy and one create-tags call, start,
\* stop and destroy at most one list and one action call, get and list
\* exactly one list call; a failed remote call is never issued again.
C20_NoRetries ==
  /\ C20_AtMostOnceEach
  /\ lastOp.op = "GetInstance"
       => /\ Len(lastOp.calls) = 1
          /\ lastOp.calls[1].api = "listVirtualMachines"

\* C20, amended: as stated, but get issues exactly one list call only for an
\* identifier that is not empty or blank; for an empty or blank identifier it
\* issues no remote call.
C20_NoRetriesGetNonBlank ==
  /\ C20_AtMostOnceEach
  /\ lastOp.op = "GetInstance"
       => IF lastOp.arg = " "
          THEN lastOp.calls = <<>>
          ELSE /\ Len(lastOp.calls) = 1
               /\ lastOp.calls[1].api = "listVirtualMachines"

C20_Witness ==
  /\ lastOp.op = "Start"
  /\ Len(lastOp.calls) = 2
  /\ lastOp.calls[1].err.nil
  /\ ~lastOp.calls[2].err.nil
  /\ ~lastOp.err.nil


\* C19: the resolved identifier bundle is write-once: no provider operation
\* (create, get, list, start, stop, destroy), in any interleaving with
\* another, changes the resolved zone, offering, template or project ID; and
\* no other state is shared, so what an operation returns and what it does
\* to its own instance is what it returns and does when it runs alone.
C19_WriteOnceNoInterference ==
  \A p \in Procs :
    /\ inflight[p].pc # "idle" => resolved = inflight[p].config
    /\ inflight[p].pc = "done"
         => /\ inflight[p].seen = inflight[p].alone.seen
            /\ OwnVMs(p, vms) = inflight[p].alone.own

\* A destroy and a create that ran interleaved, call by call.
C19_Witness ==
  /\ inflight[1].pc = "done"
  /\ inflight[2].pc = "done"
  /\ inflight[1].req.op = "DeleteInstance"
  /\ inflight[2].req.op = "CreateInstance"
  /\ Len(vms) = 3
  /\ vms[1].State = "Destroyed"
  /\ "GARM_POOL_ID" \in DOMAIN vms[3].Tags
  /\ inflight[1].seen.err.nil
  /\ inflight[2].seen.err.nil


\* C21: RemoveAllInstances always returns success and issues no platform
\* call: the VMs on the platform, their states and their tags are what they
\* were before it.
C21_RemoveAllIsNoOp ==
  /\ [](lastOp.op = "RemoveAllInstances" => lastOp.err.nil /\ lastOp.calls = <<>>)
  /\ [][lastOp'.op = "RemoveAllInstances" => vms' = vms]_vars

C21_Witness ==
  /\ lastOp.op = "RemoveAllInstances"
  /\ lastOp.err.nil
  /\ Len(vms) = 2
  /\ \E i \in 1..Len(vms) :
       /\ HasTag(vms[i], "GARM_CONTROLLER_ID", controllerID)
       /\ vms[i].State = "Running"


\* The VM records on which the operation's destroy call took effect.
C22_DestroyedBy(op) ==
  {i \in 1..Len(vms) :
     \E k \in 1..Len(op.calls) :
        /\ op.calls[k].api = "destroyVirtualMachine"
        /\ op.calls[k].err.nil
        /\ op.calls[k].params.id = vms[i].Id}

\* C22: with the configuration's expunge flag set, a VM deleted through
\* DeleteInstance is deleted permanently by the destroy request and does not
\* linger in the Destroyed state; with the default, false, it stays in the
\* Destroyed state.
C22_ExpungeOnDelete ==
  (lastOp.op = "DeleteInstance" /\ DestroyedNow(lastOp))
    => IF cfg.Expunge
       THEN \A i \in C22_DestroyedBy(lastOp) : ToLower(vms[i].State) # "destroyed"
       ELSE \A i \in C22_DestroyedBy(lastOp) : ToLower(vms[i].State) = "destroyed"

\* C23: a rendered payload shorter than 16384 bytes is base64-encoded
\* unmodified; one of 16384 bytes or more is compressed before the base64
\* encoding, as a zip archive with the single entry "udata" for Windows and
\* as gzip for every other OS; decoding, and decompressing when compressed,
\* gives the rendered payload back.
C23_Decompress(b) ==
  IF b.kind = "gzip" THEN b.data
  ELSE IF b.kind = "zip" THEN b.entries[1].data
  ELSE b

C24_Hyphens == {9, 14, 19, 24}

C24_IsUUIDExactForm ==
  lastOp.op = "isUUID" =>
    (lastOp.out[1] <=>
       /\ Len(lastOp.arg) = 36
       /\ \A i \in 1..36 :
            IF i \in C24_Hyphens THEN lastOp.arg[i] = "-"
            ELSE lastOp.arg[i] \in HexDigits)

C24_Witness ==
  /\ lastOp.op = "isUUID"
  /\ Len(lastOp.arg) = 37
  /\ SubSeq(lastOp.arg, 1, 36) = LowerUUID
  /\ lastOp.out[1] = FALSE

C24_WitnessTrue ==
  /\ lastOp.op = "isUUID"
  /\ lastOp.arg = UpperUUID
  /\ lastOp.out[1] = TRUE

\* C25: generateNFSMountScript returns nil, not an empty script, for an empty
\* mount list; for a non-empty one it returns a script with an nfs-common
\* install line and, for every entry in order, a mkdir -p <mount_path> line
\* and a mount -t nfs -o <options> <server>:<server_path> <mount_path> line,
\* the options being the entry's own when given, else
\* nfsvers=4,ro,soft,timeo=30 for a read-only mount and the same with rw for
\* a read-write one.
C25_Options(m) ==
  IF m.Options # <<>> THEN m.Options
  ELSE IF m.ReadWrite THEN <<"nfsvers=4", "rw", "soft", "timeo=30">>
  ELSE <<"nfsvers=4", "ro", "soft", "timeo=30">>

C25_NFSMountScript ==
  lastOp.op = "generateNFSMountScript" =>
    LET mounts == lastOp.arg
        script == lastOp.out[1]
        n == Len(mounts)
        head == Len(script.lines) - 2 * n
    IN /\ script.nil <=> n = 0
       /\ n > 0 =>
            /\ head >= 1
            /\ \E i \in 1..head :
                 /\ "install" \in {script.lines[i][j] : j \in DOMAIN script.lines[i]}
                 /\ "nfs-common" \in {script.lines[i][j] : j \in DOMAIN script.lines[i]}
            /\ \A k \in 1..n :
                 /\ script.lines[head + 2 * k - 1] = <<"mkdir", "-p", mounts[k].MountPath>>
                 /\ script.lines[head + 2 * k] =
                      <<"mount", "-t", "nfs", "-o", C25_Options(mounts[k]),
                        [server |-> mounts[k].Server, path |-> mounts[k].ServerPath],
                        mounts[k].MountPath>>

C25_Witness ==
  /\ lastOp.op = "generateNFSMountScript"
  /\ Len(lastOp.arg) = 2
  /\ lastOp.arg[1].Options = <<>> /\ lastOp.arg[1].ReadWrite
  /\ lastOp.arg[2].Options # <<>>
  /\ lastOp.arg[1].MountPath # lastOp.arg[2].MountPath
  /\ ~lastOp.out[1].nil

\* C26: start, stop and destroy look the instance up with an empty
\* controller ID, so their lookup by name carries no controller tag filter:
\* a name that exactly one VM bears, whatever its controller tag, gets the
\* start, stop or destroy call for that VM, while a get of a name that no VM
\* of the provider's controller bears finds nothing.
C26_ApiOf(op) ==
  IF op = "Start" THEN "startVirtualMachine"
  ELSE IF op = "Stop" THEN "stopVirtualMachine"
  ELSE "destroyVirtualMachine"

C26_NoControllerFilter ==
  (LookupOk(lastOp) /\ ~IsID(lastOp.arg)) =>
    /\ (/\ lastOp.op \in {"Start", "Stop", "DeleteInstance"}
        /\ Cardinality(Matching(lastOp.arg, "")) = 1) =>
         LET the == CHOOSE i \in Matching(lastOp.arg, "") : TRUE
         IN  /\ DOMAIN lastOp.calls[1].params.tags = {}
             /\ Len(lastOp.calls) = 2
             /\ lastOp.calls[2].api = C26_ApiOf(lastOp.op)
             /\ lastOp.calls[2].params.id = vms[the].Id
    /\ (lastOp.op = "GetInstance" /\ Matching(lastOp.arg, controllerID) = {}) =>
         /\ lastOp.calls[1].params.tags = [k \in {"GARM_CONTROLLER_ID"} |-> controllerID]
         /\ lastOp.err.nil
         /\ lastOp.out = <<NoInstance>>

\* The one VM of a name belongs to another controller and is destroyed.
C26_Witness ==
  /\ lastOp.op = "DeleteInstance"
  /\ ~IsID(lastOp.arg)
  /\ LookupOk(lastOp)
  /\ Cardinality(Matching(lastOp.arg, "")) = 1
  /\ Matching(lastOp.arg, controllerID) = {}
  /\ Len(lastOp.calls) = 2
  /\ lastOp.calls[2].err.nil
  /\ \A i \in Matching(lastOp.arg, "") : vms[i].State = "Destroyed"

\* C27: stop and destroy absorb a failed lookup only when it is the
\* not-found sentinel of zero matches: when the list call of the lookup
\* itself returns an error of the platform, also one whose text reads
\* "entity does not exist", the operation returns an error and issues no
\* stop or destroy call.
C27_ListErrorNotAbsorbed ==
  (/\ lastOp.op \in {"Stop", "DeleteInstance"}
   /\ Len(lastOp.calls) >= 1
   /\ lastOp.calls[1].api = "listVirtualMachines"
   /\ ~lastOp.calls[1].err.nil)
  => /\ ~lastOp.err.nil
     /\ ~ErrorsIs(lastOp.err, "ErrNotFound")
     /\ Contains(lastOp.err.text, lastOp.calls[1].err.text)
     /\ ActionCalls(lastOp) = {}
     /\ Len(lastOp.calls) = 1

\* The list call of a destroy fails with a text that reads as not found.
C27_Witness ==
  /\ lastOp.op = "DeleteInstance"
  /\ Len(lastOp.calls) = 1
  /\ lastOp.calls[1].err = EntityErr
  /\ IsCloudStackNotFoundErr(lastOp.calls[1].err)
  /\ IsCloudStackNotFoundErr(lastOp.err)
  /\ ~lastOp.err.nil
  /\ Len(vms) >= 1

\* C28: get never returns not-found as an error: a lookup with zero matches
\* gives the empty instance record, with an empty provider ID, and no error;
\* an ambiguous name, any other error of the lookup, and a matched VM with
\* an empty ID are returned as errors.
C28_GetNotFoundIsEmpty ==
  lastOp.op = "GetInstance" =>
    LET m == Matching(lastOp.arg, controllerID)
    IN  /\ ~ErrorsIs(lastOp.err, "ErrNotFound")
        /\ (LookupOk(lastOp) /\ m = {}) =>
             /\ lastOp.err.nil
             /\ lastOp.out = <<NoInstance>>
             /\ lastOp.out[1].ProviderID = ""
        /\ (LookupOk(lastOp) /\ Cardinality(m) > 1) => ~lastOp.err.nil
        /\ ~LookupOk(lastOp) => ~lastOp.err.nil
        /\ (LookupOk(lastOp) /\ \E i \in m : Cardinality(m) = 1 /\ vms[i].Id = "") =>
             ~lastOp.err.nil
        /\ ~lastOp.err.nil => lastOp.out = <<NoInstance>>

\* A get by name matches the one VM of this controller, which has no ID.
C28_Witness ==
  /\ lastOp.op = "GetInstance"
  /\ LookupOk(lastOp)
  /\ \E i \in Matching(lastOp.arg, controllerID) :
       Cardinality(Matching(lastOp.arg, controllerID)) = 1 /\ vms[i].Id = ""
  /\ ~lastOp.err.nil

\* A get finds nothing and says so without an error.
C28_WitnessNotFound ==
  /\ lastOp.op = "GetInstance"
  /\ LookupOk(lastOp)
  /\ Len(vms) = 2
  /\ Matching(lastOp.arg, controllerID) = {}
  /\ Matching(lastOp.arg, "") # {}
  /\ lastOp.err.nil

\* The VMs of a name that create operations returned with success.
C29_Created(name) ==
  {i \in 1..Len(vms) :
     /\ vms[i].Name = name
     /\ ghost[vms[i].Id].by = "CreateRunningInstance"
     /\ ghost[vms[i].Id].returned}

C29_Ambiguous(op) ==
  /\ ~op.err.nil
  /\ Contains(op.err.text, <<"found", "more", "than", "one", "instance", "with", "name", op.arg>>)
  /\ ActionCalls(op) = {}

\* C29 as claimed: create does not check the name for uniqueness, so a
\* create of a name that a VM already bears succeeds and leaves two VMs of
\* that name; from then on, and as long as the platform lists both, every
\* get, start, stop and destroy by that name fails with the ambiguity error.
C29_DuplicateNameAmbiguous ==
  /\ (lastOp.op = "CreateInstance" /\ lastOp.err.nil) =>
       /\ \A k \in 1..Len(lastOp.calls) : lastOp.calls[k].api # "listVirtualMachines"
       /\ \E i \in C29_Created(lastOp.arg.Name) : vms[i].Id = lastOp.out[1].ProviderID
  /\ (/\ lastOp.op \in {"GetInstance", "Start", "Stop", "DeleteInstance"}
      /\ ~IsID(lastOp.arg)
      /\ LookupOk(lastOp)
      /\ Cardinality(C29_Created(lastOp.arg)) >= 2)
     => C29_Ambiguous(lastOp)

\* The same for two VMs that were created in the configured project.
C29_AmbiguousInProject ==
  /\ (lastOp.op = "CreateInstance" /\ lastOp.err.nil) =>
       /\ \A k \in 1..Len(lastOp.calls) : lastOp.calls[k].api # "listVirtualMachines"
       /\ \E i \in C29_Created(lastOp.arg.Name) : vms[i].Id = lastOp.out[1].ProviderID
  /\ (/\ lastOp.op \in {"GetInstance", "Start", "Stop", "DeleteInstance"}
      /\ ~IsID(lastOp.arg)
      /\ LookupOk(lastOp)
      /\ Cardinality({i \in C29_Created(lastOp.arg) : InProject(vms[i])}) >= 2)
     => C29_Ambiguous(lastOp)

C29_WitnessInProject ==
  /\ lastOp.op = "Stop"
  /\ LookupOk(lastOp)
  /\ Cardinality({i \in C29_Created(lastOp.arg) : InProject(vms[i])}) = 2
  /\ C29_Ambiguous(lastOp)

\* The pool's VMs that a get by ID returns a non-empty record for.
C30_Gettable(poolID) ==
  {vms[i].Id : i \in {k \in 1..Len(vms) :
     /\ HasTag(vms[k], "GARM_POOL_ID", poolID)
     /\ LET found == FindOneInstance(controllerID, vms[k].Id, Nil)
        IN  /\ found.err.nil
            /\ CloudStackInstanceToParamsInstance(found.vm).err.nil
            /\ CloudStackInstanceToParamsInstance(found.vm).inst.ProviderID = vms[k].Id}}

\* C30: get and list disagree on destroyed VMs: a VM that the platform
\* still returns as destroyed or expunging is returned by a get with status
\* stopped and left out by the list of its pool, so the provider IDs that a
\* list of pool P returns are a subset of the VMs of P that a get returns a
\* non-empty record for.
C30_ListWithinGet ==
  /\ (lastOp.op = "ListInstances" /\ lastOp.err.nil) =>
       /\ {lastOp.out[j].ProviderID : j \in 1..Len(lastOp.out)} \subseteq C30_Gettable(lastOp.arg)
       /\ \A i \in 1..Len(vms) :
            Gone(vms[i]) => \A j \in 1..Len(lastOp.out) : lastOp.out[j].ProviderID # vms[i].Id
  /\ (lastOp.op = "GetInstance" /\ LookupOk(lastOp)) =>
       \A i \in Matching(lastOp.arg, controllerID) :
          (Cardinality(Matching(lastOp.arg, controllerID)) = 1 /\ Gone(vms[i]) /\ vms[i].Id # "")
          => /\ lastOp.err.nil
             /\ lastOp.out[1].ProviderID = vms[i].Id
             /\ lastOp.out[1].Status = "stopped"

\* A list of a pool leaves out a destroyed VM of the pool that a get returns.
C30_Witness ==
  /\ lastOp.op = "ListInstances"
  /\ lastOp.err.nil
  /\ Len(lastOp.out) = 1
  /\ \E i \in 1..Len(vms) :
       /\ Gone(vms[i])
       /\ HasTag(vms[i], "GARM_CONTROLLER_ID", controllerID)
       /\ vms[i].Id \in C30_Gettable(lastOp.arg)
       /\ \A j \in 1..Len(lastOp.out) : lastOp.out[j].ProviderID # vms[i].Id

\* A get returns a destroyed VM as stopped.
C30_WitnessGet ==
  /\ lastOp.op = "GetInstance"
  /\ lastOp.err.nil
  /\ \E i \in 1..Len(vms) :
       /\ Gone(vms[i])
       /\ lastOp.out[1].ProviderID = vms[i].Id
       /\ lastOp.out[1].Status = "stopped"

====
